---- MODULE Spec2Model ----
(***************************************************************************)
(* Model of go-smtp-slacker: the SMTP session handlers of internal/email,  *)
(* the address policy engine, the buffered email channel and the consumer  *)
(* goroutine of main that forwards each email to Slack.                    *)
(*                                                                         *)
(* Strings are sequences of one-character strings: "a@x" is <<"a","@","x">>*)
(***************************************************************************)
EXTENDS Integers, Sequences, FiniteSets, TLC

\* ------------------------------------------------------------------------
\* Bounds of the model
\* ------------------------------------------------------------------------
MaxListLen == 2
MaxData == 2
MaxRcpt == 2
MaxLines == 3
MaxSecretLen == 4

\* ------------------------------------------------------------------------
\* path/filepath.Match, as isAddressAllowed calls it (Unix build)
\* ------------------------------------------------------------------------
Separator == "/"

\* code point of a character
Ascii(c) ==
    CASE c = "*" -> 42 [] c = "-" -> 45 [] c = "/" -> 47 [] c = "?" -> 63
      [] c = "@" -> 64 [] c = "A" -> 65 [] c = "[" -> 91 [] c = "\\" -> 92
      [] c = "]" -> 93 [] c = "^" -> 94 [] c = "a" -> 97 [] c = "b" -> 98
      [] c = "x" -> 120 [] c = "y" -> 121

\* s[n:] of Go, n counted from 0
Slice(s, n) == SubSeq(s, n + 1, Len(s))

RECURSIVE stripStars(_)
stripStars(p) ==
    IF p # <<>> /\ Head(p) = "*" THEN stripStars(Tail(p)) ELSE p

\* the index at which the Scan loop of scanChunk stops
RECURSIVE scanIndex(_, _, _)
scanIndex(p, i, inrange) ==
    IF i >= Len(p) THEN i
    ELSE LET c == p[i + 1] IN
         IF c = "\\" THEN scanIndex(p, (IF i + 1 < Len(p) THEN i + 1 ELSE i) + 1, inrange)
         ELSE IF c = "[" THEN scanIndex(p, i + 1, TRUE)
         ELSE IF c = "]" THEN scanIndex(p, i + 1, FALSE)
         ELSE IF c = "*" /\ ~inrange THEN i
         ELSE scanIndex(p, i + 1, inrange)

scanChunk(pattern) ==
    LET p == stripStars(pattern)
        i == scanIndex(p, 0, FALSE)
    IN  [star |-> pattern # <<>> /\ Head(pattern) = "*",
         chunk |-> SubSeq(p, 1, i),
         rest |-> Slice(p, i)]

\* getEsc: one character of a class, r = 0 with err when there is none
getEsc(chunk) ==
    IF chunk = <<>> \/ Head(chunk) = "-" \/ Head(chunk) = "]"
    THEN [r |-> 0, nchunk |-> <<>>, err |-> TRUE]
    ELSE LET c1 == IF Head(chunk) = "\\" THEN Tail(chunk) ELSE chunk IN
         IF c1 = <<>>
         THEN [r |-> 0, nchunk |-> <<>>, err |-> TRUE]
         ELSE [r |-> Ascii(Head(c1)), nchunk |-> Tail(c1), err |-> Tail(c1) = <<>>]

\* the range loop of a character class: r is the code point read from the name
RECURSIVE classRanges(_, _, _, _)
classRanges(chunk, r, match, nrange) ==
    IF chunk # <<>> /\ Head(chunk) = "]" /\ nrange > 0
    THEN [chunk |-> Tail(chunk), match |-> match, err |-> FALSE]
    ELSE LET lo == getEsc(chunk) IN
         IF lo.err THEN [chunk |-> <<>>, match |-> FALSE, err |-> TRUE]
         ELSE IF Head(lo.nchunk) = "-"
              THEN LET hi == getEsc(Tail(lo.nchunk)) IN
                   IF hi.err THEN [chunk |-> <<>>, match |-> FALSE, err |-> TRUE]
                   ELSE classRanges(hi.nchunk, r,
                                    match \/ (lo.r <= r /\ r <= hi.r), nrange + 1)
              ELSE classRanges(lo.nchunk, r, match \/ lo.r = r, nrange + 1)

RECURSIVE matchChunkLoop(_, _, _)
matchChunkLoop(chunk, s, wasFailed) ==
    IF chunk = <<>>
    THEN IF wasFailed THEN [rest |-> <<>>, ok |-> FALSE, err |-> FALSE]
                      ELSE [rest |-> s, ok |-> TRUE, err |-> FALSE]
    ELSE LET failed == wasFailed \/ s = <<>>
             c == Head(chunk)
             s1 == IF failed THEN s ELSE Tail(s)
         IN
         IF c = "["
         THEN LET r == IF failed THEN 0 ELSE Ascii(Head(s))
                  c1 == Tail(chunk)
                  negated == c1 # <<>> /\ Head(c1) = "^"
                  c2 == IF negated THEN Tail(c1) ELSE c1
                  cl == classRanges(c2, r, FALSE, 0)
              IN  IF cl.err THEN [rest |-> <<>>, ok |-> FALSE, err |-> TRUE]
                  ELSE matchChunkLoop(cl.chunk, s1, failed \/ (cl.match = negated))
         ELSE IF c = "?"
         THEN matchChunkLoop(Tail(chunk), s1,
                             failed \/ (~failed /\ Head(s) = Separator))
         ELSE IF c = "\\" /\ Len(chunk) = 1
         THEN [rest |-> <<>>, ok |-> FALSE, err |-> TRUE]
         ELSE LET lit == IF c = "\\" THEN Tail(chunk) ELSE chunk IN
              matchChunkLoop(Tail(lit), s1,
                             failed \/ (~failed /\ Head(lit) # Head(s)))

matchChunk(chunk, s) == matchChunkLoop(chunk, s, FALSE)

\* the check of the rest of the pattern before Match returns false
RECURSIVE restIsBad(_)
restIsBad(pattern) ==
    IF pattern = <<>> THEN FALSE
    ELSE LET sc == scanChunk(pattern) IN
         IF matchChunk(sc.chunk, <<>>).err THEN TRUE ELSE restIsBad(sc.rest)

\* the loop "for i := 0; i < len(name) && name[i] != Separator; i++" of Match:
\* found = a match skipping i+1 bytes, with what is left of the name
RECURSIVE skipLoop(_, _, _, _)
skipLoop(chunk, name, i, lastChunk) ==
    IF ~(i < Len(name) /\ name[i + 1] # Separator)
    THEN [found |-> FALSE, rest |-> <<>>, err |-> FALSE]
    ELSE LET m == matchChunk(chunk, Slice(name, i + 1)) IN
         IF m.ok
         THEN IF lastChunk /\ Len(m.rest) > 0
              THEN skipLoop(chunk, name, i + 1, lastChunk)
              ELSE [found |-> TRUE, rest |-> m.rest, err |-> FALSE]
         ELSE IF m.err THEN [found |-> FALSE, rest |-> <<>>, err |-> TRUE]
         ELSE skipLoop(chunk, name, i + 1, lastChunk)

\* filepath.Match(pattern, name): matched, and err = ErrBadPattern
RECURSIVE Match(_, _)
Match(pattern, name) ==
    IF pattern = <<>> THEN [matched |-> name = <<>>, err |-> FALSE]
    ELSE LET sc == scanChunk(pattern)
             m == matchChunk(sc.chunk, name)
         IN
         IF sc.star /\ sc.chunk = <<>>
         THEN [matched |-> \A k \in 1..Len(name) : name[k] # Separator, err |-> FALSE]
         ELSE IF m.ok /\ (Len(m.rest) = 0 \/ Len(sc.rest) > 0)
         THEN Match(sc.rest, m.rest)
         ELSE IF m.err THEN [matched |-> FALSE, err |-> TRUE]
         ELSE LET sk == IF sc.star
                        THEN skipLoop(sc.chunk, name, 0, sc.rest = <<>>)
                        ELSE [found |-> FALSE, rest |-> <<>>, err |-> FALSE]
              IN  IF sk.found THEN Match(sc.rest, sk.rest)
                  ELSE IF sk.err THEN [matched |-> FALSE, err |-> TRUE]
                  ELSE [matched |-> FALSE, err |-> restIsBad(sc.rest)]

\* ------------------------------------------------------------------------
\* internal/email: the address policy engine
\* ------------------------------------------------------------------------
PolicyAllow == "allow"
PolicyDeny == "deny"

\* one "for _, pattern := range list" loop of isAddressAllowed: TRUE when the
\* loop returns, that is at the first pattern that matches without an error
RECURSIVE rangeMatches(_, _)
rangeMatches(list, address) ==
    IF list = <<>> THEN FALSE
    ELSE LET m == Match(Head(list), address) IN
         IF ~m.err /\ m.matched THEN TRUE ELSE rangeMatches(Tail(list), address)

\* isAddressAllowed with the allow list scanned before the deny list
isAddressAllowedAllowFirst(address, allowList, denyList, defaultPolicy) ==
    IF rangeMatches(allowList, address) THEN TRUE
    ELSE IF rangeMatches(denyList, address) THEN FALSE
    ELSE CASE defaultPolicy = PolicyAllow -> TRUE
           [] defaultPolicy = PolicyDeny -> FALSE
           [] OTHER -> FALSE

\* isAddressAllowed rejecting by default only on the value deny
isAddressAllowedFailOpen(address, allowList, denyList, defaultPolicy) ==
    IF rangeMatches(denyList, address) THEN FALSE
    ELSE IF rangeMatches(allowList, address) THEN TRUE
    ELSE CASE defaultPolicy = PolicyDeny -> FALSE
           [] OTHER -> TRUE

\* isAddressAllowed rejecting the address when a deny pattern is malformed
isAddressAllowedBadPatternRejects(address, allowList, denyList, defaultPolicy) ==
    IF \E i \in 1..Len(denyList) : Match(denyList[i], address).err THEN FALSE
    ELSE IF rangeMatches(denyList, address) THEN FALSE
    ELSE IF rangeMatches(allowList, address) THEN TRUE
    ELSE CASE defaultPolicy = PolicyAllow -> TRUE
           [] defaultPolicy = PolicyDeny -> FALSE
           [] OTHER -> FALSE

\* isAddressAllowed consulting only the first pattern of each list
isAddressAllowedFirstPatternOnly(address, allowList, denyList, defaultPolicy) ==
    IF denyList # <<>> /\ rangeMatches(<<Head(denyList)>>, address) THEN FALSE
    ELSE IF allowList # <<>> /\ rangeMatches(<<Head(allowList)>>, address) THEN TRUE
    ELSE CASE defaultPolicy = PolicyAllow -> TRUE
           [] defaultPolicy = PolicyDeny -> FALSE
           [] OTHER -> FALSE

isAddressAllowed(address, allowList, denyList, defaultPolicy) ==
    IF rangeMatches(denyList, address) THEN FALSE
    ELSE IF rangeMatches(allowList, address) THEN TRUE
    ELSE CASE defaultPolicy = PolicyAllow -> TRUE
           [] defaultPolicy = PolicyDeny -> FALSE
           [] OTHER -> FALSE

\* ------------------------------------------------------------------------
\* Inputs of the model
\* ------------------------------------------------------------------------
AddrAX == <<"a", "@", "x">>
AddrBX == <<"b", "@", "x">>
AddrAY == <<"a", "@", "y">>
AddrUpperAX == <<"A", "@", "x">>

\* the addresses given to MAIL FROM and RCPT TO
Addresses == {AddrAX, AddrAY}

\* a header line of a raw message; a line with no name is a malformed line
FromLine(addrs) == [name |-> "From", addrs |-> addrs, text |-> ""]
ToLine(addrs) == [name |-> "To", addrs |-> addrs, text |-> ""]
SubjectLine(text) == [name |-> "Subject", addrs |-> <<>>, text |-> text]
MalformedLine == [name |-> "", addrs |-> <<>>, text |-> "this is not an email"]

Raw(readErr, headers, html, text) ==
    [readErr |-> readErr, headers |-> headers, html |-> html, text |-> text]

BodyHi == <<"h", "i">>
BodyBlank == <<" ", "\t", "U+00A0", "\n">>

\* the readers handed to Data
RawTwoRcpt == Raw(FALSE, <<FromLine(<<AddrAY, AddrAX>>), ToLine(<<AddrAX, AddrBX>>),
                            SubjectLine("s1")>>, BodyHi, BodyHi)
RawDupRcpt == Raw(FALSE, <<SubjectLine("s2"), ToLine(<<AddrAY, AddrAY>>),
                            FromLine(<<AddrBX>>)>>, BodyBlank, BodyHi)
RawNoFrom == Raw(FALSE, <<ToLine(<<AddrAX>>)>>, <<>>, BodyHi)
RawNoTo == Raw(FALSE, <<FromLine(<<AddrAX>>)>>, <<>>, BodyHi)
RawGarbage == Raw(FALSE, <<MalformedLine>>, <<>>, <<>>)
RawUnreadable == Raw(TRUE, <<FromLine(<<AddrAX>>), ToLine(<<AddrBX>>)>>, <<>>, BodyHi)

Payloads == {RawTwoRcpt, RawDupRcpt, RawNoFrom, RawNoTo, RawGarbage, RawUnreadable}

\* the credentials submitted to AUTH PLAIN: right, wrong password, unknown user
Credentials == {<<"testuser", "password123">>, <<"testuser", "wrong">>,
                <<"nobody", "password123">>}

Sessions == {1, 2}

\* ------------------------------------------------------------------------
\* State
\* ------------------------------------------------------------------------
VARIABLES
    cfg,            \* the loaded configuration (smtp section)
    userDb,         \* backend.userDb: username -> user
    authenticated,  \* session.authenticated, per session
    pc,             \* where each session's Data handler stands
    pending,        \* the email a Data handler has built and not yet returned from
    emailChan,      \* the buffered channel of parsed emails
    built,          \* number of emails built by Data so far
    last,           \* the handler call that returned last: session, command, input, error
    txn,            \* per session, the transcript of its SMTP transaction, when it is kept
    cpc,            \* where the consumer goroutine stands
    e,              \* the email the consumer is forwarding
    ri,             \* index in e.To of the recipient being served
    calls,          \* the SendMessage calls made so far for the email e
    posted,         \* the message the last of them handed to Slack, if it was posted
    polIn,          \* arguments of an isAddressAllowed evaluation
    polOut,         \* its result
    dbFile,         \* the user database file handed to loadUserDatabase
    dbOut,          \* what loadUserDatabase returned for it
    confIn,         \* command line, environment and configuration file of a LoadConfig call
    confOut,        \* what LoadConfig returned for them
    secret,         \* the bytes of a utils.Secret
    shown,          \* what one of its methods gave for it
    ids             \* when kept, the serial numbers of the emails in the channel and of e

sessVars == <<authenticated, pc, pending, built, last, txn>>
consVars == <<cpc, e, ri, calls, posted>>
polVars == <<polIn, polOut>>
dbVars == <<dbFile, dbOut>>
confVars == <<confIn, confOut>>
secVars == <<secret, shown>>
vars == <<cfg, userDb, emailChan, sessVars, consVars, polVars, dbVars, confVars, secVars, ids>>

NoEmail == [Body |-> [HTML |-> <<>>, Text |-> <<>>], From |-> <<>>, Subject |-> "", To |-> <<>>]
NoMessage == [header |-> <<>>, html |-> FALSE, body |-> <<>>]
NoRaw == Raw(FALSE, <<>>, <<>>, <<>>)
NoPending == [raw |-> NoRaw, email |-> NoEmail]
NoCall == [sess |-> 0, cmd |-> "none", arg |-> <<>>, err |-> "nil"]
\* the transcript of a transaction: the sender accepted by MAIL FROM, the
\* recipients accepted by RCPT TO in their order, the recipients refused by the
\* policy, the addresses accepted only before the last RSET, and whether an
\* AUTH has failed
NoTxn(on) == [on |-> on, from |-> <<>>, rcpts |-> <<>>, refused |-> {}, before |-> {},
              authFailed |-> FALSE]
NoPolOut == [done |-> FALSE, allowed |-> FALSE]
NoDbFile == [opens |-> FALSE, lines |-> <<>>, scanErr |-> FALSE]
NoDbOut == [done |-> FALSE, users |-> <<>>, err |-> "nil"]
NoConfIn == [flag |-> <<>>, env |-> <<>>, fileState |-> "missing", file |-> <<>>,
             tokenFileContent |-> <<>>]
NoConfOut == [done |-> FALSE, cfg |-> <<>>, err |-> "nil"]
NoShown == [done |-> FALSE, via |-> "none", verb |-> 0, out |-> <<>>, bool |-> FALSE]
NoPolIn == [address |-> <<>>, allowList |-> <<>>, denyList |-> <<>>, defaultPolicy |-> ""]

\* ------------------------------------------------------------------------
\* Configuration and construction (config.LoadConfig, email.NewServer,
\* backend.NewSession)
\* ------------------------------------------------------------------------
Policy(allow, deny, defaultAction) ==
    [Allow |-> allow, Deny |-> deny, DefaultAction |-> defaultAction]

Config(authEnabled, preferHTMLBody) ==
    [AuthEnabled |-> authEnabled,
     PreferHTMLBody |-> preferHTMLBody,
     From |-> Policy(<<>>, <<AddrAY>>, PolicyAllow),
     To |-> Policy(<<<<"*", "@", "x">>>>, <<>>, PolicyDeny)]

\* golang.org/x/crypto/bcrypt: the hash of a password, and its verification
Bcrypt(password) == <<"$2a$", password>>
CompareHashAndPassword(hash, password) == hash = Bcrypt(password)

\* NewServer loading the user database whatever the configuration
NewUserDbAlwaysLoaded(authEnabled) ==
    [u \in {"testuser"} |-> [username |-> u, passwordHash |-> Bcrypt("password123")]]

\* the user database NewServer loads when authentication is enabled
NewUserDb(authEnabled) ==
    IF authEnabled
    THEN [u \in {"testuser"} |-> [username |-> u, passwordHash |-> Bcrypt("password123")]]
    ELSE <<>>

emailChanCap == 100

\* session.requireAuth, copied from the configuration by NewSession
requireAuth(s) == cfg.AuthEnabled

\* session.AuthMechanisms: the mechanisms the session offers, nil as <<>>
SaslPlain == "PLAIN"
AuthMechanisms(s) == IF requireAuth(s) THEN <<SaslPlain>> ELSE <<>>

\* ------------------------------------------------------------------------
\* internal/email: session handlers
\* ------------------------------------------------------------------------
ErrAuthRequired == "ErrAuthRequired"
ErrAuthFailed == "ErrAuthFailed"
ErrSenderNotAllowed == "550 Sender not allowed"
ErrRecipientNotAllowed == "550 Recipient not allowed"
ErrRead == "read error"

\* the callback accepting a known user whatever the password
PlainAuthAnyPassword(db, wasAuthenticated, username, password) ==
    IF username \notin DOMAIN db
    THEN [err |-> ErrAuthFailed, authenticated |-> wasAuthenticated]
    ELSE [err |-> "nil", authenticated |-> TRUE]

\* the callback telling an unknown user from a wrong password
PlainAuthUnknownUserTold(db, wasAuthenticated, username, password) ==
    IF username \notin DOMAIN db
    THEN [err |-> "unknown user", authenticated |-> wasAuthenticated]
    ELSE IF ~CompareHashAndPassword(db[username].passwordHash, password)
    THEN [err |-> ErrAuthFailed, authenticated |-> wasAuthenticated]
    ELSE [err |-> "nil", authenticated |-> TRUE]

\* the callback clearing the flag when a submission fails
PlainAuthFailureClearsFlag(db, wasAuthenticated, username, password) ==
    IF username \notin DOMAIN db
    THEN [err |-> ErrAuthFailed, authenticated |-> FALSE]
    ELSE IF ~CompareHashAndPassword(db[username].passwordHash, password)
    THEN [err |-> ErrAuthFailed, authenticated |-> FALSE]
    ELSE [err |-> "nil", authenticated |-> TRUE]

\* the callback session.Auth hands to sasl.NewPlainServer: error and new flag
PlainAuth(db, wasAuthenticated, username, password) ==
    IF username \notin DOMAIN db
    THEN [err |-> ErrAuthFailed, authenticated |-> wasAuthenticated]
    ELSE IF ~CompareHashAndPassword(db[username].passwordHash, password)
    THEN [err |-> ErrAuthFailed, authenticated |-> wasAuthenticated]
    ELSE [err |-> "nil", authenticated |-> TRUE]

\* session.Mail asking for authentication whatever the server requires
MailGateIgnoresRequire(req, auth, policy, from) ==
    IF ~auth THEN ErrAuthRequired
    ELSE IF ~isAddressAllowed(from, policy.Allow, policy.Deny, policy.DefaultAction)
    THEN ErrSenderNotAllowed
    ELSE "nil"

\* session.Mail: the error it returns
Mail(req, auth, policy, from) ==
    IF req /\ ~auth THEN ErrAuthRequired
    ELSE IF ~isAddressAllowed(from, policy.Allow, policy.Deny, policy.DefaultAction)
    THEN ErrSenderNotAllowed
    ELSE "nil"

\* session.Rcpt consulting the deny list and the default action only
RcptAllowListIgnored(req, auth, policy, to) ==
    IF req /\ ~auth THEN ErrAuthRequired
    ELSE IF ~isAddressAllowed(to, <<>>, policy.Deny, policy.DefaultAction)
    THEN ErrRecipientNotAllowed
    ELSE "nil"

\* session.Rcpt: the error it returns
Rcpt(req, auth, policy, to) ==
    IF req /\ ~auth THEN ErrAuthRequired
    ELSE IF ~isAddressAllowed(to, policy.Allow, policy.Deny, policy.DefaultAction)
    THEN ErrRecipientNotAllowed
    ELSE "nil"

\* the first header line of the given name, as net/mail Header.Get finds it
RECURSIVE HeaderGet(_, _)
HeaderGet(headers, name) ==
    IF headers = <<>> THEN [name |-> name, addrs |-> <<>>, text |-> ""]
    ELSE IF Head(headers).name = name THEN Head(headers)
    ELSE HeaderGet(Tail(headers), name)

\* parsemail.Parse: a header line without a name fails the parse
Parse(raw) ==
    IF \E i \in 1..Len(raw.headers) : raw.headers[i].name = ""
    THEN [err |-> TRUE, From |-> <<>>, To |-> <<>>, Subject |-> "",
          HTMLBody |-> <<>>, TextBody |-> <<>>]
    ELSE [err |-> FALSE,
          From |-> HeaderGet(raw.headers, "From").addrs,
          To |-> HeaderGet(raw.headers, "To").addrs,
          Subject |-> HeaderGet(raw.headers, "Subject").text,
          HTMLBody |-> raw.html,
          TextBody |-> raw.text]

DataResult(send, err, email) == [send |-> send, err |-> err, email |-> email]

BuildEmail(emailParsed, to) ==
    [Body |-> [HTML |-> emailParsed.HTMLBody, Text |-> emailParsed.TextBody],
     From |-> emailParsed.From[1],
     Subject |-> emailParsed.Subject,
     To |-> to]

\* session.Data handing a parse error back to the protocol layer
DataParseErrorReturned(req, auth, raw) ==
    IF req /\ ~auth THEN DataResult(FALSE, ErrAuthRequired, NoEmail)
    ELSE IF raw.readErr THEN DataResult(FALSE, ErrRead, NoEmail)
    ELSE LET emailParsed == Parse(raw) IN
         IF emailParsed.err THEN DataResult(FALSE, "parse error", NoEmail)
         ELSE IF Len(emailParsed.From) = 0 THEN DataResult(FALSE, "nil", NoEmail)
         ELSE IF Len(emailParsed.To) = 0 THEN DataResult(FALSE, "nil", NoEmail)
         ELSE DataResult(TRUE, "nil", BuildEmail(emailParsed, emailParsed.To))

\* session.Data without the check for an empty recipient list
DataKeepsNoRecipients(req, auth, raw) ==
    IF req /\ ~auth THEN DataResult(FALSE, ErrAuthRequired, NoEmail)
    ELSE IF raw.readErr THEN DataResult(FALSE, ErrRead, NoEmail)
    ELSE LET emailParsed == Parse(raw) IN
         IF emailParsed.err THEN DataResult(FALSE, "nil", NoEmail)
         ELSE IF Len(emailParsed.From) = 0 THEN DataResult(FALSE, "nil", NoEmail)
         ELSE DataResult(TRUE, "nil", BuildEmail(emailParsed, emailParsed.To))

\* session.Data keeping only the first recipient
DataFirstRecipientOnly(req, auth, raw) ==
    IF req /\ ~auth THEN DataResult(FALSE, ErrAuthRequired, NoEmail)
    ELSE IF raw.readErr THEN DataResult(FALSE, ErrRead, NoEmail)
    ELSE LET emailParsed == Parse(raw) IN
         IF emailParsed.err THEN DataResult(FALSE, "nil", NoEmail)
         ELSE IF Len(emailParsed.From) = 0 THEN DataResult(FALSE, "nil", NoEmail)
         ELSE IF Len(emailParsed.To) = 0 THEN DataResult(FALSE, "nil", NoEmail)
         ELSE DataResult(TRUE, "nil", BuildEmail(emailParsed, <<emailParsed.To[1]>>))

\* session.Data refusing a message that has no sender
DataNoSenderRefused(req, auth, raw) ==
    IF req /\ ~auth THEN DataResult(FALSE, ErrAuthRequired, NoEmail)
    ELSE IF raw.readErr THEN DataResult(FALSE, ErrRead, NoEmail)
    ELSE LET emailParsed == Parse(raw) IN
         IF emailParsed.err THEN DataResult(FALSE, "nil", NoEmail)
         ELSE IF Len(emailParsed.From) = 0 THEN DataResult(FALSE, "no sender", NoEmail)
         ELSE IF Len(emailParsed.To) = 0 THEN DataResult(FALSE, "nil", NoEmail)
         ELSE DataResult(TRUE, "nil", BuildEmail(emailParsed, emailParsed.To))

\* session.Data up to the channel send: the error it returns when it returns
\* early, or the email it goes on to send (send = TRUE)
Data(req, auth, raw) ==
    IF req /\ ~auth THEN DataResult(FALSE, ErrAuthRequired, NoEmail)
    ELSE IF raw.readErr THEN DataResult(FALSE, ErrRead, NoEmail)
    ELSE LET emailParsed == Parse(raw) IN
         IF emailParsed.err THEN DataResult(FALSE, "nil", NoEmail)
         ELSE IF Len(emailParsed.From) = 0 THEN DataResult(FALSE, "nil", NoEmail)
         ELSE IF Len(emailParsed.To) = 0 THEN DataResult(FALSE, "nil", NoEmail)
         ELSE DataResult(TRUE, "nil", BuildEmail(emailParsed, emailParsed.To))

Returned(s, cmd, arg, err) == [sess |-> s, cmd |-> cmd, arg |-> arg, err |-> err]

Range(seq) == {seq[i] : i \in 1..Len(seq)}

\* what the answer to a command adds to the transcript t of its session
TxnAuth(t, err) ==
    IF t.on /\ err # "nil" THEN [t EXCEPT !.authFailed = TRUE] ELSE t

TxnMail(t, from, err) ==
    IF t.on /\ err = "nil"
    THEN [t EXCEPT !.from = from, !.before = @ \ {from}]
    ELSE t

TxnRcpt(t, to, err) ==
    IF t.on /\ err = "nil"
    THEN [t EXCEPT !.rcpts = Append(@, to), !.before = @ \ {to}]
    ELSE IF t.on /\ err = ErrRecipientNotAllowed
    THEN [t EXCEPT !.refused = @ \cup {to}]
    ELSE t

TxnReset(t) ==
    IF t.on
    THEN [t EXCEPT !.from = <<>>, !.rcpts = <<>>, !.refused = {},
                   !.before = @ \cup Range(t.rcpts)
                                \cup (IF t.from = <<>> THEN {} ELSE {t.from})]
    ELSE t

\* a PLAIN credential submission whose result is kept for every session
AuthSharedFlag(s, username, password) ==
    /\ pc[s] = "idle"
    /\ LET r == PlainAuth(userDb, authenticated[s], username, password) IN
       /\ authenticated' = [t \in Sessions |-> authenticated[t] \/ r.authenticated]
       /\ last' = Returned(s, "Auth", <<username, password>>, r.err)
       /\ txn' = [txn EXCEPT ![s] = TxnAuth(txn[s], r.err)]
    /\ UNCHANGED <<cfg, userDb, emailChan, pc, pending, built, consVars, polVars, dbVars, confVars, secVars, ids>>

\* a PLAIN credential submission
Auth(s, username, password) ==
    /\ pc[s] = "idle"
    /\ LET r == PlainAuth(userDb, authenticated[s], username, password) IN
       /\ authenticated' = [authenticated EXCEPT ![s] = r.authenticated]
       /\ last' = Returned(s, "Auth", <<username, password>>, r.err)
       /\ txn' = [txn EXCEPT ![s] = TxnAuth(txn[s], r.err)]
    /\ UNCHANGED <<cfg, userDb, emailChan, pc, pending, built, consVars, polVars, dbVars, confVars, secVars, ids>>

MailFrom(s, from) ==
    /\ pc[s] = "idle"
    /\ last' = Returned(s, "Mail", from, Mail(requireAuth(s), authenticated[s], cfg.From, from))
    /\ txn' = [txn EXCEPT ![s] = TxnMail(txn[s], from, last'.err)]
    /\ UNCHANGED <<cfg, userDb, emailChan, authenticated, pc, pending, built,
                   consVars, polVars, dbVars, confVars, secVars, ids>>

RcptTo(s, to) ==
    /\ pc[s] = "idle"
    /\ txn[s].on => Len(txn[s].rcpts) < MaxRcpt
    /\ last' = Returned(s, "Rcpt", to, Rcpt(requireAuth(s), authenticated[s], cfg.To, to))
    /\ txn' = [txn EXCEPT ![s] = TxnRcpt(txn[s], to, last'.err)]
    /\ UNCHANGED <<cfg, userDb, emailChan, authenticated, pc, pending, built,
                   consVars, polVars, dbVars, confVars, secVars, ids>>

\* Data from its start to its early return or to the channel send
DataBegin(s, raw) ==
    /\ pc[s] = "idle"
    /\ built < MaxData
    /\ LET d == Data(requireAuth(s), authenticated[s], raw) IN
       IF d.send
       THEN /\ pc' = [pc EXCEPT ![s] = "send"]
            /\ pending' = [pending EXCEPT ![s] = [raw |-> raw, email |-> d.email]]
            /\ built' = built + 1
            /\ UNCHANGED last
       ELSE /\ last' = Returned(s, "Data", raw, d.err)
            /\ UNCHANGED <<pc, pending, built>>
    /\ UNCHANGED <<cfg, userDb, emailChan, authenticated, txn, consVars, polVars, dbVars, confVars, secVars, ids>>

\* the serial numbers, when they are kept: of the emails in the channel, of
\* the email the consumer holds (0 for none), and the next one to give
NoIds(on) == [on |-> on, queue |-> <<>>, cur |-> 0, next |-> 1]

\* the channel send gives the email the next serial number
IdsSent(t) ==
    IF t.on THEN [t EXCEPT !.queue = Append(@, t.next), !.next = @ + 1] ELSE t

\* the receive takes the serial number at the head
IdsReceived(t) ==
    IF t.on THEN [t EXCEPT !.queue = Tail(@), !.cur = Head(t.queue)] ELSE t

\* the receive takes the serial number at the end
IdsReceivedLast(t) ==
    IF t.on THEN [t EXCEPT !.queue = SubSeq(@, 1, Len(@) - 1), !.cur = t.queue[Len(t.queue)]]
    ELSE t

\* a channel send that never blocks
DataSendUnbounded(s) ==
    /\ pc[s] = "send"
    /\ emailChan' = Append(emailChan, pending[s].email)
    /\ pc' = [pc EXCEPT ![s] = "ret"]
    /\ ids' = IdsSent(ids)
    /\ UNCHANGED <<cfg, userDb, authenticated, pending, built, last, txn, consVars, polVars, dbVars, confVars, secVars>>

\* a channel send that gives up when the channel is full (select with default)
DataSendDropsWhenFull(s) ==
    /\ pc[s] = "send"
    /\ emailChan' = IF Len(emailChan) < emailChanCap
                    THEN Append(emailChan, pending[s].email) ELSE emailChan
    /\ pc' = [pc EXCEPT ![s] = "ret"]
    /\ ids' = IF Len(emailChan) < emailChanCap THEN IdsSent(ids) ELSE ids
    /\ UNCHANGED <<cfg, userDb, authenticated, pending, built, last, txn, consVars, polVars, dbVars, confVars, secVars>>

\* "s.emailChan <- email": blocks while the channel is full
DataSend(s) ==
    /\ pc[s] = "send"
    /\ Len(emailChan) < emailChanCap
    /\ emailChan' = Append(emailChan, pending[s].email)
    /\ pc' = [pc EXCEPT ![s] = "ret"]
    /\ ids' = IdsSent(ids)
    /\ UNCHANGED <<cfg, userDb, authenticated, pending, built, last, txn, consVars, polVars, dbVars, confVars, secVars>>

\* the "return nil" after the channel send
DataReturn(s) ==
    /\ pc[s] = "ret"
    /\ last' = Returned(s, "Data", pending[s].raw, "nil")
    /\ pc' = [pc EXCEPT ![s] = "idle"]
    /\ pending' = [pending EXCEPT ![s] = NoPending]
    /\ UNCHANGED <<cfg, userDb, emailChan, authenticated, built, txn, consVars, polVars, dbVars, confVars, secVars, ids>>

\* session.Reset: an empty body
Reset(s) ==
    /\ pc[s] = "idle"
    /\ last' = Returned(s, "Reset", <<>>, "nil")
    /\ txn' = [txn EXCEPT ![s] = TxnReset(txn[s])]
    /\ UNCHANGED <<cfg, userDb, emailChan, authenticated, pc, pending, built,
                   consVars, polVars, dbVars, confVars, secVars, ids>>

\* ------------------------------------------------------------------------
\* slacker.Service.SendMessage and the consumer goroutine of main
\* ------------------------------------------------------------------------
ErrUserNotFound == "ErrUserNotFound"
ErrUserDM == "ErrUserDM"
ErrSendMessage == "ErrSendMessage"

\* what the Slack client answers to GetUserByEmail, OpenConversation, PostMessage
SlackAnswer(user, dm, post) == [user |-> user, dm |-> dm, post |-> post]
SlackOutcomes == {SlackAnswer(TRUE, TRUE, TRUE), SlackAnswer(FALSE, TRUE, TRUE),
                  SlackAnswer(TRUE, FALSE, TRUE), SlackAnswer(TRUE, TRUE, FALSE)}

\* unicode.IsSpace: tab, newline, form feed, carriage return, space, and the
\* white space that has no escape in a string here, each character written
\* by its code point: vertical tab, U+0085, U+00A0, U+1680, U+2000 to
\* U+200A, U+2028, U+2029, U+202F, U+205F and U+3000
WhiteSpace ==
    {"\t", "\n", "\f", "\r", " ", "U+000B", "U+0085", "U+00A0", "U+1680", "U+2000",
     "U+2001", "U+2002", "U+2003", "U+2004", "U+2005", "U+2006", "U+2007", "U+2008",
     "U+2009", "U+200A", "U+2028", "U+2029", "U+202F", "U+205F", "U+3000"}

RECURSIVE TrimLeft(_)
TrimLeft(str) ==
    IF str # <<>> /\ Head(str) \in WhiteSpace THEN TrimLeft(Tail(str)) ELSE str

RECURSIVE TrimRight(_)
TrimRight(str) ==
    IF str # <<>> /\ str[Len(str)] \in WhiteSpace
    THEN TrimRight(SubSeq(str, 1, Len(str) - 1)) ELSE str

\* strings.TrimSpace
TrimSpace(str) == TrimRight(TrimLeft(str))

\* ------------------------------------------------------------------------
\* Configuration loading (config.LoadConfig over viper and pflag)
\* ------------------------------------------------------------------------
\* a flag that was not given, a variable that is not in the environment, a
\* key that is not in the configuration file, a file that cannot be read
Unset == <<"<unset>">>

DefaultLogLevel == <<"INFO">>
DefaultListenAddr == <<"localhost:25">>

\* a lookup that asks the environment before the command line
findEnvFirst(flag, env, file, default) ==
    IF env # Unset /\ env # <<>> THEN env
    ELSE IF flag # Unset THEN flag
    ELSE IF file # Unset THEN file
    ELSE default

\* a lookup that asks the configuration file before the environment
findFileFirst(flag, env, file, default) ==
    IF flag # Unset THEN flag
    ELSE IF file # Unset THEN file
    ELSE IF env # Unset /\ env # <<>> THEN env
    ELSE default

\* viper's lookup of a key that has no explicit override: a flag that was
\* changed on the command line, then a bound environment variable that is
\* set and not empty, then the configuration file, then the default
find(flag, env, file, default) ==
    IF flag # Unset THEN flag
    ELSE IF env # Unset /\ env # <<>> THEN env
    ELSE IF file # Unset THEN file
    ELSE default

\* viper.GetString and the string fields of Unmarshal: "" for a key without a value
GetString(value) == IF value = Unset THEN <<>> ELSE value

\* a configuration file without any key
NoConfFile ==
    [logLevel |-> Unset, listenAddr |-> Unset, token |-> Unset, tokenFile |-> Unset,
     authEnabled |-> Unset, userDatabase |-> Unset, fromDefault |-> Unset,
     toDefault |-> Unset, rest |-> FALSE]

\* viper.ReadInConfig: the keys read from the configuration file. The file
\* is found and read, or it is named and missing or broken (an error), or
\* --config-file is empty and viper finds no file (ConfigFileNotFoundError,
\* which LoadConfig lets pass with a warning)
ReadInConfig(in) ==
    IF in.fileState = "found" THEN in.file ELSE NoConfFile

ErrReadConfig == "failed to read config file"
ErrReadTokenFile == "failed to read file"
ErrUnmarshal == "failed to unmarshal config"
ErrValidation == "config validation error"

BoolTrue == <<"true">>
BoolFalse == <<"false">>

NoConfig ==
    [LogLevel |-> <<>>, ListenAddr |-> <<>>, Token |-> <<>>, AuthEnabled |-> Unset,
     UserDatabase |-> <<>>, FromDefault |-> <<>>, ToDefault |-> <<>>]

\* a validation that accepts any default-action
validateConfigAnyDefaultAction(c, rest) ==
    /\ c.Token # <<>>
    /\ rest
    /\ c.ListenAddr # <<>>
    /\ c.AuthEnabled # Unset
    /\ c.AuthEnabled = BoolTrue => c.UserDatabase # <<>>

\* validateConfig over the validate tags of Config: whether the struct passes.
\* rest tells whether slack.message-template, which only the file can give,
\* has a value.
validateConfig(c, rest) ==
    /\ c.Token # <<>>
    /\ rest
    /\ c.ListenAddr # <<>>
    /\ c.AuthEnabled # Unset
    /\ c.AuthEnabled = BoolTrue => c.UserDatabase # <<>>
    /\ c.FromDefault \in {<<"allow">>, <<"deny">>}
    /\ c.ToDefault \in {<<"allow">>, <<"deny">>}

\* LoadConfig: the configuration and the error it returns
LoadConfig(in) ==
    LET file == ReadInConfig(in)
        pathToSlackTokenFile == GetString(find(in.flag.tokenFile, Unset, file.tokenFile, Unset))
        enabled == find(in.flag.authEnabled, Unset, file.authEnabled, BoolFalse)
        loaded ==
            [LogLevel |-> GetString(find(in.flag.logLevel, in.env.LOG_LEVEL,
                                         file.logLevel, DefaultLogLevel)),
             ListenAddr |-> GetString(find(in.flag.listenAddr, Unset,
                                           file.listenAddr, DefaultListenAddr)),
             Token |-> IF pathToSlackTokenFile # <<>>
                       THEN TrimSpace(in.tokenFileContent)
                       ELSE GetString(find(Unset, in.env.SLACK_TOKEN, file.token, Unset)),
             AuthEnabled |-> IF enabled \in {BoolTrue, BoolFalse} THEN enabled ELSE Unset,
             UserDatabase |-> GetString(find(in.flag.userDatabase, Unset,
                                             file.userDatabase, Unset)),
             FromDefault |-> GetString(file.fromDefault),
             ToDefault |-> GetString(file.toDefault)]
    IN  IF in.fileState \in {"missing", "broken"}
        THEN [cfg |-> NoConfig, err |-> ErrReadConfig]
        ELSE IF pathToSlackTokenFile # <<>> /\ in.tokenFileContent = Unset
             THEN [cfg |-> NoConfig, err |-> ErrReadTokenFile]
        ELSE IF enabled \notin {BoolTrue, BoolFalse}
             THEN [cfg |-> [NoConfig EXCEPT !.LogLevel = loaded.LogLevel,
                                            !.Token = loaded.Token],
                   err |-> ErrUnmarshal]
        ELSE IF ~validateConfig(loaded, file.rest)
             THEN [cfg |-> NoConfig, err |-> ErrValidation]
        ELSE [cfg |-> loaded, err |-> "nil"]

\* ------------------------------------------------------------------------
\* The user database file (loadUserDatabase)
\* ------------------------------------------------------------------------
\* strings.HasPrefix
HasPrefix(str, prefix) ==
    Len(str) >= Len(prefix) /\ SubSeq(str, 1, Len(prefix)) = prefix

\* strings.Index for a one-character separator: the first position of sep, 0 for none
RECURSIVE IndexFrom(_, _, _)
IndexFrom(str, sep, i) ==
    IF i > Len(str) THEN 0
    ELSE IF str[i] = sep THEN i
    ELSE IndexFrom(str, sep, i + 1)

Index(str, sep) == IndexFrom(str, sep, 1)

\* strings.SplitN for n > 0: at most n fields, the last one the unsplit remainder
RECURSIVE SplitN(_, _, _)
SplitN(str, sep, n) ==
    IF n = 1 \/ Index(str, sep) = 0 THEN <<str>>
    ELSE <<SubSeq(str, 1, Index(str, sep) - 1)>>
         \o SplitN(SubSeq(str, Index(str, sep) + 1, Len(str)), sep, n - 1)

\* users[username] = u on a Go map
MapPut(users, username, u) ==
    [k \in DOMAIN users \cup {username} |-> IF k = username THEN u ELSE users[k]]

\* the loop body keeping the first line of a username
scanLineFirstWins(users, text) ==
    LET line == TrimSpace(text)
        parts == SplitN(line, ":", 2)
    IN  IF line = <<>> \/ HasPrefix(line, <<"#">>) THEN users
        ELSE IF Len(parts) # 2 THEN users
        ELSE IF parts[1] \in DOMAIN users THEN users
        ELSE MapPut(users, parts[1], [username |-> parts[1], passwordHash |-> parts[2]])

\* the loop body storing a line without a colon as a user without a hash
scanLineKeepsMalformed(users, text) ==
    LET line == TrimSpace(text)
        parts == SplitN(line, ":", 2)
    IN  IF line = <<>> \/ HasPrefix(line, <<"#">>) THEN users
        ELSE IF Len(parts) # 2
             THEN MapPut(users, parts[1], [username |-> parts[1], passwordHash |-> <<>>])
        ELSE MapPut(users, parts[1], [username |-> parts[1], passwordHash |-> parts[2]])

\* the body of the scanner loop: what one line of the file does to the map
scanLine(users, text) ==
    LET line == TrimSpace(text)
        parts == SplitN(line, ":", 2)
    IN  IF line = <<>> \/ HasPrefix(line, <<"#">>) THEN users
        ELSE IF Len(parts) # 2 THEN users
        ELSE MapPut(users, parts[1], [username |-> parts[1], passwordHash |-> parts[2]])

\* the scanner loop over the lines of the file, first line first
RECURSIVE scanLines(_, _)
scanLines(users, lines) ==
    IF lines = <<>> THEN users
    ELSE scanLines(scanLine(users, Head(lines)), Tail(lines))

ErrOpenUserDb == "failed to open user database file"
ErrReadUserDb == "error reading user database file"

\* loadUserDatabase: the map and the error it returns, a nil map as <<>>
loadUserDatabase(file) ==
    IF ~file.opens THEN [users |-> <<>>, err |-> ErrOpenUserDb]
    ELSE IF file.scanErr THEN [users |-> <<>>, err |-> ErrReadUserDb]
    ELSE [users |-> scanLines(<<>>, file.lines), err |-> "nil"]

\* ------------------------------------------------------------------------
\* utils.Secret: a Go string is its bytes, each an integer in 0..255
\* ------------------------------------------------------------------------
Star == 42
Quote == 34
Backslash == 92

\* string(b) for a byte b: the UTF-8 encoding of the code point b
ByteToString(b) == IF b < 128 THEN <<b>> ELSE <<192 + (b \div 64), 128 + (b % 64)>>

Stars(k) == [i \in 1..k |-> Star]

\* obfuscate
obfuscate(in) ==
    IF Len(in) = 0 THEN <<>>
    ELSE IF Len(in) = 1 THEN <<Star>>
    ELSE IF Len(in) = 2 THEN ByteToString(in[1]) \o <<Star>>
    ELSE <<in[1]>> \o Stars(Len(in) - 2) \o <<in[Len(in)]>>

\* Secret.GetValue
GetValue(s) == s

\* Secret.IsZero
IsZero(s) == Len(s) = 0

\* Secret.Equal
Equal(s, other) == s = other

\* Secret.UnmarshalText: the secret after it (the error is always nil)
UnmarshalText(s, data) == data

\* Secret.String
String(s) == obfuscate(s)

\* Secret.GoString
GoString(s) == String(s)

\* Secret.MarshalText: the bytes (the error is always nil)
MarshalText(s) == String(s)

\* the lower-case hexadecimal digit d as a byte
HexDigit(d) == IF d < 10 THEN 48 + d ELSE 87 + d

\* whether str has at position i a well-formed two-byte UTF-8 sequence (the
\* strings here hold no lead byte of a longer sequence)
TwoByteRuneAt(str, i) ==
    /\ i < Len(str)
    /\ str[i] >= 194 /\ str[i] <= 223
    /\ str[i + 1] >= 128 /\ str[i + 1] <= 191

RuneAt(str, i) == (str[i] - 192) * 64 + (str[i + 1] - 128)

\* the letter of the short escape of a control character: \a \b \t \n \v \f \r
ShortEscape(b) ==
    CASE b = 7 -> 97 [] b = 8 -> 98 [] b = 9 -> 116 [] b = 10 -> 110
      [] b = 11 -> 118 [] b = 12 -> 102 [] b = 13 -> 114

\* strconv.Quote without its surrounding quotes, from position i on:
\* backslash escapes for the quote and the backslash, the short escapes for
\* the control characters 7 to 13, \xhh for the other control bytes and for
\* a byte that is not UTF-8, \u00hh for a code point up to U+00FF that is
\* not printable (the strings quoted here, outputs of obfuscate, hold no
\* code point above U+00FF)
RECURSIVE QuoteFrom(_, _)
QuoteFrom(str, i) ==
    IF i > Len(str) THEN <<>>
    ELSE IF str[i] = Quote \/ str[i] = Backslash
         THEN <<Backslash, str[i]>> \o QuoteFrom(str, i + 1)
    ELSE IF str[i] >= 32 /\ str[i] < 127 THEN <<str[i]>> \o QuoteFrom(str, i + 1)
    ELSE IF str[i] >= 7 /\ str[i] <= 13
         THEN <<Backslash, ShortEscape(str[i])>> \o QuoteFrom(str, i + 1)
    ELSE IF TwoByteRuneAt(str, i)
         THEN (IF RuneAt(str, i) >= 161 /\ RuneAt(str, i) # 173
               THEN <<str[i], str[i + 1]>>
               ELSE <<Backslash, 117, 48, 48, HexDigit(RuneAt(str, i) \div 16),
                      HexDigit(RuneAt(str, i) % 16)>>)
              \o QuoteFrom(str, i + 2)
    ELSE <<Backslash, 120, HexDigit(str[i] \div 16), HexDigit(str[i] % 16)>>
         \o QuoteFrom(str, i + 1)

\* fmt's %q of a string
FmtQ(str) == <<Quote>> \o QuoteFrom(str, 1) \o <<Quote>>

\* Secret.Format: what it writes for the verb c (a byte)
Format(s, c) ==
    IF c = 118 \/ c = 115 THEN String(s)
    ELSE IF c = 113 THEN FmtQ(String(s))
    ELSE <<37, 33, c, 40>> \o String(s) \o <<41>>

\* the body of a JSON string as encoding/json writes it, from position i
\* on (Go 1.22 and later): backslash escapes for the quote and the
\* backslash, the short escapes \b \t \n \f \r, \u00hh for the other control
\* bytes and for the characters <, > and &, \ufffd for a byte that is not
\* UTF-8
RECURSIVE JsonFrom(_, _)
JsonFrom(str, i) ==
    IF i > Len(str) THEN <<>>
    ELSE IF str[i] = Quote \/ str[i] = Backslash
         THEN <<Backslash, str[i]>> \o JsonFrom(str, i + 1)
    ELSE IF str[i] \in {8, 9, 10, 12, 13}
         THEN <<Backslash, ShortEscape(str[i])>> \o JsonFrom(str, i + 1)
    ELSE IF str[i] < 32 \/ str[i] \in {60, 62, 38}
         THEN <<Backslash, 117, 48, 48, HexDigit(str[i] \div 16), HexDigit(str[i] % 16)>>
              \o JsonFrom(str, i + 1)
    ELSE IF str[i] < 128 THEN <<str[i]>> \o JsonFrom(str, i + 1)
    ELSE IF TwoByteRuneAt(str, i) THEN <<str[i], str[i + 1]>> \o JsonFrom(str, i + 2)
    ELSE <<Backslash, 117, 102, 102, 102, 100>> \o JsonFrom(str, i + 1)

\* Secret.MarshalJSON: the bytes (the error is always nil)
MarshalJSON(s) == <<Quote>> \o JsonFrom(String(s), 1) \o <<Quote>>

\* the fixed texts of the header block
HeaderFrom == "*New notification from:* "
HeaderSubject == "\n*Subject:* "

\* strings.Join(to, ", ")
RECURSIVE Join(_)
Join(to) ==
    IF to = <<>> THEN <<>>
    ELSE IF Len(to) = 1 THEN to[1]
    ELSE to[1] \o <<",", " ">> \o Join(Tail(to))

\* the text of the header block: fmt.Sprintf with sender and the joined to
HeaderText(sender, to, subject) ==
    <<HeaderFrom>> \o sender \o <<HeaderSubject>> \o Join(to)

\* Service.SendMessage: the message it hands to PostMessage, between the two
\* dividers: the header block and the body blocks, these kept as the body
\* they are converted from and the converter (htmlToSlack or textToSlack)
Message(sender, to, subject, body, preferHTMLBody) ==
    [header |-> HeaderText(sender, to, subject),
     html |-> preferHTMLBody,
     body |-> IF preferHTMLBody THEN body.HTML ELSE body.Text]

\* Service.SendMessage: the error it returns
SendMessage(userEmail, sender, to, subject, body, preferHTMLBody, slack) ==
    IF ~slack.user THEN ErrUserNotFound
    ELSE IF preferHTMLBody /\ TrimSpace(body.HTML) = <<>> THEN ErrSendMessage
    ELSE IF ~preferHTMLBody /\ TrimSpace(body.Text) = <<>> THEN ErrSendMessage
    ELSE IF ~slack.dm THEN ErrUserDM
    ELSE IF ~slack.post THEN ErrSendMessage
    ELSE "nil"

\* a retry decided on the format preference alone
RetryWantedAnyKind(err, preferHTMLBody) == preferHTMLBody

\* a retry decided on the kind of failure alone
RetryWantedAnyFormat(err, preferHTMLBody) == err = ErrSendMessage

\* the condition of the retry: errors.As(err, &sendErr) && *cfg.SMTP.PreferHTMLBody
RetryWanted(err, preferHTMLBody) == err = ErrSendMessage /\ preferHTMLBody

\* the preferHTMLBody argument of the retry call
RetryPreferHTMLBody == TRUE

Call(i, recipient, preferHTMLBody, err) ==
    [index |-> i, recipient |-> recipient, preferHTMLBody |-> preferHTMLBody, err |-> err]

\* a receive that takes the email sent last
ConsumerRecvNewestFirst ==
    /\ cpc = "recv"
    /\ emailChan # <<>>
    /\ e' = emailChan[Len(emailChan)]
    /\ emailChan' = SubSeq(emailChan, 1, Len(emailChan) - 1)
    /\ cpc' = IF Len(emailChan[Len(emailChan)].To) = 0 THEN "recv" ELSE "send"
    /\ ri' = IF Len(emailChan[Len(emailChan)].To) = 0 THEN 0 ELSE 1
    /\ calls' = <<>>
    /\ posted' = NoMessage
    /\ ids' = IdsReceivedLast(ids)
    /\ UNCHANGED <<cfg, userDb, sessVars, polVars, dbVars, confVars, secVars>>

\* "for e := range emailChan" receives; an email without recipients is skipped
ConsumerRecv ==
    /\ cpc = "recv"
    /\ emailChan # <<>>
    /\ e' = Head(emailChan)
    /\ emailChan' = Tail(emailChan)
    /\ cpc' = IF Len(Head(emailChan).To) = 0 THEN "recv" ELSE "send"
    /\ ri' = IF Len(Head(emailChan).To) = 0 THEN 0 ELSE 1
    /\ calls' = <<>>
    /\ posted' = NoMessage
    /\ ids' = IdsReceived(ids)
    /\ UNCHANGED <<cfg, userDb, sessVars, polVars, dbVars, confVars, secVars>>

\* the consumer moves on from recipient ri
AfterRecipient ==
    IF ri < Len(e.To) THEN cpc' = "send" /\ ri' = ri + 1
                      ELSE cpc' = "recv" /\ ri' = ri

\* the first SendMessage call, leaving the loop over e.To when it fails
ConsumerSendAbortOnError(slack) ==
    /\ cpc = "send"
    /\ LET err == SendMessage(e.To[ri], e.From, e.To, e.Subject, e.Body,
                              cfg.PreferHTMLBody, slack) IN
       /\ calls' = Append(calls, Call(ri, e.To[ri], cfg.PreferHTMLBody, err))
       /\ posted' = IF err = "nil"
                    THEN Message(e.From, e.To, e.Subject, e.Body, cfg.PreferHTMLBody)
                    ELSE NoMessage
       /\ IF err # "nil" /\ RetryWanted(err, cfg.PreferHTMLBody)
          THEN cpc' = "retry" /\ ri' = ri
          ELSE IF err # "nil" THEN cpc' = "recv" /\ ri' = ri
          ELSE AfterRecipient
    /\ UNCHANGED <<cfg, userDb, emailChan, sessVars, e, polVars, dbVars, confVars, secVars, ids>>

\* the first SendMessage call for recipient ri
ConsumerSend(slack) ==
    /\ cpc = "send"
    /\ LET err == SendMessage(e.To[ri], e.From, e.To, e.Subject, e.Body,
                              cfg.PreferHTMLBody, slack) IN
       /\ calls' = Append(calls, Call(ri, e.To[ri], cfg.PreferHTMLBody, err))
       /\ posted' = IF err = "nil"
                    THEN Message(e.From, e.To, e.Subject, e.Body, cfg.PreferHTMLBody)
                    ELSE NoMessage
       /\ IF err # "nil" /\ RetryWanted(err, cfg.PreferHTMLBody)
          THEN cpc' = "retry" /\ ri' = ri
          ELSE AfterRecipient
    /\ UNCHANGED <<cfg, userDb, emailChan, sessVars, e, polVars, dbVars, confVars, secVars, ids>>

\* the second SendMessage call for recipient ri
ConsumerRetry(slack) ==
    /\ cpc = "retry"
    /\ LET err == SendMessage(e.To[ri], e.From, e.To, e.Subject, e.Body,
                              RetryPreferHTMLBody, slack) IN
       /\ calls' = Append(calls, Call(ri, e.To[ri], RetryPreferHTMLBody, err))
       /\ posted' = IF err = "nil"
                    THEN Message(e.From, e.To, e.Subject, e.Body, RetryPreferHTMLBody)
                    ELSE NoMessage
    /\ AfterRecipient
    /\ UNCHANGED <<cfg, userDb, emailChan, sessVars, e, polVars, dbVars, confVars, secVars, ids>>

\* ------------------------------------------------------------------------
\* The server: sessions, channel and consumer
\* ------------------------------------------------------------------------
Init ==
    /\ cfg \in {Config(a, h) : a \in BOOLEAN, h \in BOOLEAN}
    /\ userDb = NewUserDb(cfg.AuthEnabled)
    /\ authenticated = [s \in Sessions |-> FALSE]
    /\ pc = [s \in Sessions |-> "idle"]
    /\ pending = [s \in Sessions |-> NoPending]
    /\ emailChan = <<>>
    /\ built = 0
    /\ last = NoCall
    /\ txn = [s \in Sessions |-> NoTxn(FALSE)]
    /\ cpc = "recv"
    /\ e = NoEmail
    /\ ri = 0
    /\ calls = <<>>
    /\ posted = NoMessage
    /\ polIn = NoPolIn
    /\ polOut = NoPolOut
    /\ dbFile = NoDbFile
    /\ dbOut = NoDbOut
    /\ confIn = NoConfIn
    /\ confOut = NoConfOut
    /\ secret = <<>>
    /\ shown = NoShown
    /\ ids = NoIds(FALSE)

Next ==
    \/ \E s \in Sessions, c \in Credentials : Auth(s, c[1], c[2])
    \/ \E s \in Sessions, a \in Addresses : MailFrom(s, a)
    \/ \E s \in Sessions, a \in Addresses : RcptTo(s, a)
    \/ \E s \in Sessions, raw \in Payloads : DataBegin(s, raw)
    \/ \E s \in Sessions : DataSend(s)
    \/ \E s \in Sessions : DataReturn(s)
    \/ \E s \in Sessions : Reset(s)
    \/ ConsumerRecv
    \/ \E slack \in SlackOutcomes : ConsumerSend(slack)
    \/ \E slack \in SlackOutcomes : ConsumerRetry(slack)

Spec == Init /\ [][Next]_vars

\* ------------------------------------------------------------------------
\* The path of an email from Data to the notifier, every email numbered
\* ------------------------------------------------------------------------
InitDelivery ==
    /\ cfg \in {Config(FALSE, h) : h \in BOOLEAN}
    /\ userDb = NewUserDb(cfg.AuthEnabled)
    /\ authenticated = [s \in Sessions |-> FALSE]
    /\ pc = [s \in Sessions |-> "idle"]
    /\ pending = [s \in Sessions |-> NoPending]
    /\ emailChan = <<>>
    /\ built = 0
    /\ last = NoCall
    /\ txn = [s \in Sessions |-> NoTxn(FALSE)]
    /\ cpc = "recv"
    /\ e = NoEmail
    /\ ri = 0
    /\ calls = <<>>
    /\ posted = NoMessage
    /\ polIn = NoPolIn
    /\ polOut = NoPolOut
    /\ dbFile = NoDbFile
    /\ dbOut = NoDbOut
    /\ confIn = NoConfIn
    /\ confOut = NoConfOut
    /\ secret = <<>>
    /\ shown = NoShown
    /\ ids = NoIds(TRUE)

NextDelivery ==
    \/ \E s \in Sessions, raw \in Payloads : DataBegin(s, raw)
    \/ \E s \in Sessions : DataSend(s)
    \/ \E s \in Sessions : DataReturn(s)
    \/ ConsumerRecv
    \/ \E slack \in SlackOutcomes : ConsumerSend(slack)
    \/ \E slack \in SlackOutcomes : ConsumerRetry(slack)

SpecDelivery == InitDelivery /\ [][NextDelivery]_vars

\* the consumer goroutine is scheduled and every SendMessage call returns
FairSpecDelivery ==
    /\ SpecDelivery
    /\ WF_vars(ConsumerRecv)
    /\ WF_vars(\E slack \in SlackOutcomes : ConsumerSend(slack))
    /\ WF_vars(\E slack \in SlackOutcomes : ConsumerRetry(slack))

\* ------------------------------------------------------------------------
\* The consumer over any content of the channel: the channel starts with
\* emails that no Data call built (serial numbers below zero), one of them
\* without recipients, and the sessions go on sending theirs
\* ------------------------------------------------------------------------
EmailNoRecipients == [NoEmail EXCEPT !.From = AddrAX, !.Subject = "s1"]

EmailOneRecipient == [EmailNoRecipients EXCEPT !.To = <<AddrBX>>]

Preloaded == {<<EmailNoRecipients>>, <<EmailNoRecipients, EmailOneRecipient>>,
              <<EmailOneRecipient, EmailNoRecipients>>}

InitConsumer ==
    /\ cfg \in {Config(FALSE, h) : h \in BOOLEAN}
    /\ userDb = NewUserDb(cfg.AuthEnabled)
    /\ authenticated = [s \in Sessions |-> FALSE]
    /\ pc = [s \in Sessions |-> "idle"]
    /\ pending = [s \in Sessions |-> NoPending]
    /\ emailChan \in Preloaded
    /\ built = 0
    /\ last = NoCall
    /\ txn = [s \in Sessions |-> NoTxn(FALSE)]
    /\ cpc = "recv"
    /\ e = NoEmail
    /\ ri = 0
    /\ calls = <<>>
    /\ posted = NoMessage
    /\ polIn = NoPolIn
    /\ polOut = NoPolOut
    /\ dbFile = NoDbFile
    /\ dbOut = NoDbOut
    /\ confIn = NoConfIn
    /\ confOut = NoConfOut
    /\ secret = <<>>
    /\ shown = NoShown
    /\ ids = [NoIds(TRUE) EXCEPT !.queue = [i \in 1..Len(emailChan) |-> 0 - i]]

SpecConsumer == InitConsumer /\ [][NextDelivery]_vars

\* ------------------------------------------------------------------------
\* The address policy engine on its own: one evaluation of isAddressAllowed
\* ------------------------------------------------------------------------
PolAddresses == {AddrAX, AddrBX, AddrAY, AddrUpperAX}

PolPatterns == {<<"*", "@", "x">>, AddrAX, <<"?", "@", "y">>, <<"[">>,
                <<"[", "^", "a", "]", "@", "x">>}

PolDefaults == {PolicyAllow, PolicyDeny, "something-else"}

Lists(S, n) == UNION {[1..k -> S] : k \in 0..n}

InitPolicy ==
    /\ cfg = Config(FALSE, FALSE)
    /\ userDb = NewUserDb(cfg.AuthEnabled)
    /\ authenticated = [s \in Sessions |-> FALSE]
    /\ pc = [s \in Sessions |-> "idle"]
    /\ pending = [s \in Sessions |-> NoPending]
    /\ emailChan = <<>>
    /\ built = 0
    /\ last = NoCall
    /\ txn = [s \in Sessions |-> NoTxn(FALSE)]
    /\ cpc = "recv"
    /\ e = NoEmail
    /\ ri = 0
    /\ calls = <<>>
    /\ posted = NoMessage
    /\ polIn \in [address : PolAddresses,
                  allowList : Lists(PolPatterns, MaxListLen),
                  denyList : Lists(PolPatterns, MaxListLen),
                  defaultPolicy : PolDefaults]
    /\ polOut = NoPolOut
    /\ dbFile = NoDbFile
    /\ dbOut = NoDbOut
    /\ confIn = NoConfIn
    /\ confOut = NoConfOut
    /\ secret = <<>>
    /\ shown = NoShown
    /\ ids = NoIds(FALSE)

Evaluate ==
    /\ ~polOut.done
    /\ polOut' = [done |-> TRUE,
                  allowed |-> isAddressAllowed(polIn.address, polIn.allowList,
                                               polIn.denyList, polIn.defaultPolicy)]
    /\ UNCHANGED <<cfg, userDb, emailChan, sessVars, consVars, polIn, dbVars, confVars, secVars, ids>>

NextPolicy == Evaluate

SpecPolicy == InitPolicy /\ [][NextPolicy]_vars

\* ------------------------------------------------------------------------
\* The user database loader on its own: one call of loadUserDatabase
\* ------------------------------------------------------------------------
\* lines of a user database file: entries for two usernames with two hashes,
\* padded, with a second colon, with an empty username; blank, comment and
\* colon-less lines
DbLines == {<<"a", ":", "1">>, <<"a", ":", "2">>, <<"b", ":", "1">>,
            <<"\t", "b", ":", "2", " ">>, <<"a", ":", "1", ":", "2">>, <<":", "1">>,
            <<>>, <<" ", "\t">>, <<"#", "a", ":", "1">>, <<"a", "b">>}

DbFiles ==
    {[opens |-> TRUE, lines |-> l, scanErr |-> FALSE] : l \in Lists(DbLines, MaxLines)}
    \cup {[opens |-> FALSE, lines |-> <<>>, scanErr |-> FALSE]}
    \cup {[opens |-> TRUE, lines |-> l, scanErr |-> TRUE] : l \in Lists(DbLines, 1)}

InitUserDb ==
    /\ cfg = Config(TRUE, FALSE)
    /\ userDb = NewUserDb(cfg.AuthEnabled)
    /\ authenticated = [s \in Sessions |-> FALSE]
    /\ pc = [s \in Sessions |-> "idle"]
    /\ pending = [s \in Sessions |-> NoPending]
    /\ emailChan = <<>>
    /\ built = 0
    /\ last = NoCall
    /\ txn = [s \in Sessions |-> NoTxn(FALSE)]
    /\ cpc = "recv"
    /\ e = NoEmail
    /\ ri = 0
    /\ calls = <<>>
    /\ posted = NoMessage
    /\ polIn = NoPolIn
    /\ polOut = NoPolOut
    /\ dbFile \in DbFiles
    /\ dbOut = NoDbOut
    /\ confIn = NoConfIn
    /\ confOut = NoConfOut
    /\ secret = <<>>
    /\ shown = NoShown
    /\ ids = NoIds(FALSE)

LoadUsers ==
    /\ ~dbOut.done
    /\ dbOut' = [done |-> TRUE,
                 users |-> loadUserDatabase(dbFile).users,
                 err |-> loadUserDatabase(dbFile).err]
    /\ UNCHANGED <<cfg, userDb, emailChan, sessVars, consVars, polVars, dbFile, confVars, secVars, ids>>

NextUserDb == LoadUsers

SpecUserDb == InitUserDb /\ [][NextUserDb]_vars

\* ------------------------------------------------------------------------
\* Configuration loading on its own: one call of LoadConfig
\* ------------------------------------------------------------------------
\* what the command line may give: --log-level, --smtp.listen-addr, --slack.token-file
ConfFlags ==
    [logLevel : {Unset, <<"error">>},
     listenAddr : {Unset, <<"1.2.3.4:5678">>, <<>>},
     tokenFile : {Unset, <<"flag.txt">>},
     authEnabled : {Unset},
     userDatabase : {Unset}]

\* what the environment may hold: LOG_LEVEL and SLACK_TOKEN, unset, empty or set
ConfEnvs ==
    [LOG_LEVEL : {Unset, <<>>, <<"warn">>},
     SLACK_TOKEN : {Unset, <<>>, <<"tok-env">>}]

\* what the configuration file may hold; rest tells whether it gives
\* slack.message-template a value
ConfFiles ==
    [logLevel : {Unset, <<"info">>},
     listenAddr : {Unset, <<"0.0.0.0:2525">>},
     token : {Unset, <<"tok-yaml">>},
     tokenFile : {Unset, <<"yaml.txt">>},
     authEnabled : {Unset},
     userDatabase : {Unset},
     fromDefault : {<<"allow">>},
     toDefault : {<<"deny">>},
     rest : BOOLEAN]

\* the token file: unreadable, or its content
TokenFileContents == {Unset, <<" ", "tok-file", "\n">>}

ConfInputs ==
    {[flag |-> f, env |-> v, fileState |-> "found", file |-> y, tokenFileContent |-> t] :
        f \in ConfFlags, v \in ConfEnvs, y \in ConfFiles, t \in TokenFileContents}
    \cup {[flag |-> f, env |-> v, fileState |-> st, file |-> NoConfFile,
            tokenFileContent |-> t] :
        f \in ConfFlags, v \in ConfEnvs, st \in {"missing", "broken", "unnamed"},
        t \in TokenFileContents}

InitConfig ==
    /\ cfg = Config(FALSE, FALSE)
    /\ userDb = NewUserDb(cfg.AuthEnabled)
    /\ authenticated = [s \in Sessions |-> FALSE]
    /\ pc = [s \in Sessions |-> "idle"]
    /\ pending = [s \in Sessions |-> NoPending]
    /\ emailChan = <<>>
    /\ built = 0
    /\ last = NoCall
    /\ txn = [s \in Sessions |-> NoTxn(FALSE)]
    /\ cpc = "recv"
    /\ e = NoEmail
    /\ ri = 0
    /\ calls = <<>>
    /\ posted = NoMessage
    /\ polIn = NoPolIn
    /\ polOut = NoPolOut
    /\ dbFile = NoDbFile
    /\ dbOut = NoDbOut
    /\ confIn \in ConfInputs
    /\ confOut = NoConfOut
    /\ secret = <<>>
    /\ shown = NoShown
    /\ ids = NoIds(FALSE)

Load ==
    /\ ~confOut.done
    /\ confOut' = [done |-> TRUE, cfg |-> LoadConfig(confIn).cfg, err |-> LoadConfig(confIn).err]
    /\ UNCHANGED <<cfg, userDb, emailChan, sessVars, consVars, polVars, dbVars, confIn, secVars, ids>>

NextConfig == Load

SpecConfig == InitConfig /\ [][NextConfig]_vars

\* ------------------------------------------------------------------------
\* Configuration loading, the settings that validation looks at
\* ------------------------------------------------------------------------
\* the command line: -a / --smtp.auth.enabled, --smtp.auth.user-database and
\* --slack.token-file
ValidateFlags ==
    [logLevel : {Unset},
     listenAddr : {Unset, <<>>},
     tokenFile : {Unset, <<"flag.txt">>},
     authEnabled : {Unset, BoolTrue},
     userDatabase : {Unset, <<"/flag/users.db">>}]

ValidateEnvs ==
    [LOG_LEVEL : {Unset},
     SLACK_TOKEN : {Unset, <<"tok-env">>}]

\* the configuration file: smtp.auth.enabled absent, true, false or not a
\* boolean; the default actions absent, allow, deny or something else
ValidateFiles ==
    [logLevel : {Unset},
     listenAddr : {Unset},
     token : {Unset, <<"tok-yaml">>},
     tokenFile : {Unset, <<"yaml.txt">>},
     authEnabled : {Unset, BoolTrue, BoolFalse, <<"maybe">>},
     userDatabase : {Unset, <<"/etc/users.db">>},
     fromDefault : {Unset, <<"allow">>, <<"something">>},
     toDefault : {<<"deny">>, <<"Allow">>},
     rest : BOOLEAN]

\* the token file: unreadable, holding a token, or holding white space only
ValidateTokenFiles == {Unset, <<"tok-file", "\n">>, <<" ", "\n">>}

ValidateInputs ==
    {[flag |-> f, env |-> v, fileState |-> "found", file |-> y, tokenFileContent |-> t] :
        f \in ValidateFlags, v \in ValidateEnvs, y \in ValidateFiles,
        t \in ValidateTokenFiles}
    \cup {[flag |-> f, env |-> v, fileState |-> st, file |-> NoConfFile,
            tokenFileContent |-> t] :
        f \in ValidateFlags, v \in ValidateEnvs, st \in {"missing", "broken", "unnamed"},
        t \in ValidateTokenFiles}

InitValidate ==
    /\ cfg = Config(FALSE, FALSE)
    /\ userDb = NewUserDb(cfg.AuthEnabled)
    /\ authenticated = [s \in Sessions |-> FALSE]
    /\ pc = [s \in Sessions |-> "idle"]
    /\ pending = [s \in Sessions |-> NoPending]
    /\ emailChan = <<>>
    /\ built = 0
    /\ last = NoCall
    /\ txn = [s \in Sessions |-> NoTxn(FALSE)]
    /\ cpc = "recv"
    /\ e = NoEmail
    /\ ri = 0
    /\ calls = <<>>
    /\ posted = NoMessage
    /\ polIn = NoPolIn
    /\ polOut = NoPolOut
    /\ dbFile = NoDbFile
    /\ dbOut = NoDbOut
    /\ confIn \in ValidateInputs
    /\ confOut = NoConfOut
    /\ secret = <<>>
    /\ shown = NoShown
    /\ ids = NoIds(FALSE)

SpecValidate == InitValidate /\ [][NextConfig]_vars

\* ------------------------------------------------------------------------
\* A Secret on its own: one call of one of its methods
\* ------------------------------------------------------------------------
\* the characters of the secrets, each as its UTF-8 bytes: a, b, the star,
\* the quote and U+00E9
SecretChars == {<<97>>, <<98>>, <<Star>>, <<Quote>>, <<10>>, <<195, 169>>}

RECURSIVE Flatten(_)
Flatten(chars) == IF chars = <<>> THEN <<>> ELSE Head(chars) \o Flatten(Tail(chars))

\* "supersecret"
Supersecret == <<115, 117, 112, 101, 114, 115, 101, 99, 114, 101, 116>>

Secrets == {Flatten(chars) : chars \in Lists(SecretChars, MaxSecretLen)} \cup {Supersecret}

\* the verbs handed to Format: v, s, q and d
Verbs == {118, 115, 113, 100}

\* the methods that print or marshal, and GetValue
\* the texts handed to UnmarshalText and the secrets handed to Equal:
\* "", "x" and "a" followed by a newline
Texts == {<<>>, <<120>>, <<97, 10>>}

Methods == {"String", "GoString", "MarshalText", "MarshalJSON", "GetValue"}

InitSecret ==
    /\ cfg = Config(FALSE, FALSE)
    /\ userDb = NewUserDb(cfg.AuthEnabled)
    /\ authenticated = [s \in Sessions |-> FALSE]
    /\ pc = [s \in Sessions |-> "idle"]
    /\ pending = [s \in Sessions |-> NoPending]
    /\ emailChan = <<>>
    /\ built = 0
    /\ last = NoCall
    /\ txn = [s \in Sessions |-> NoTxn(FALSE)]
    /\ cpc = "recv"
    /\ e = NoEmail
    /\ ri = 0
    /\ calls = <<>>
    /\ posted = NoMessage
    /\ polIn = NoPolIn
    /\ polOut = NoPolOut
    /\ dbFile = NoDbFile
    /\ dbOut = NoDbOut
    /\ confIn = NoConfIn
    /\ confOut = NoConfOut
    /\ secret \in Secrets
    /\ shown = NoShown
    /\ ids = NoIds(FALSE)

\* a call of a method without arguments
Call0(via) ==
    /\ ~shown.done
    /\ shown' = [done |-> TRUE, via |-> via, verb |-> 0, bool |-> FALSE,
                 out |-> CASE via = "String" -> String(secret)
                           [] via = "GoString" -> GoString(secret)
                           [] via = "MarshalText" -> MarshalText(secret)
                           [] via = "MarshalJSON" -> MarshalJSON(secret)
                           [] via = "GetValue" -> GetValue(secret)]
    /\ UNCHANGED <<cfg, userDb, emailChan, sessVars, consVars, polVars, dbVars, confVars, secret, ids>>

\* a call of Format by fmt with the verb c
CallFormat(c) ==
    /\ ~shown.done
    /\ shown' = [done |-> TRUE, via |-> "Format", verb |-> c, bool |-> FALSE,
                 out |-> Format(secret, c)]
    /\ UNCHANGED <<cfg, userDb, emailChan, sessVars, consVars, polVars, dbVars, confVars, secret, ids>>

\* a call of IsZero, or of Equal with the secret other
CallBool(via, other) ==
    /\ ~shown.done
    /\ shown' = [done |-> TRUE, via |-> via, verb |-> 0, out |-> <<>>,
                 bool |-> IF via = "IsZero" THEN IsZero(secret) ELSE Equal(secret, other)]
    /\ UNCHANGED <<cfg, userDb, emailChan, sessVars, consVars, polVars, dbVars, confVars, secret, ids>>

\* a call of UnmarshalText: the secret is replaced, and what was shown of
\* the old one is forgotten
CallUnmarshalText(data) ==
    /\ secret' = UnmarshalText(secret, data)
    /\ shown' = NoShown
    /\ UNCHANGED <<cfg, userDb, emailChan, sessVars, consVars, polVars, dbVars, confVars, ids>>

NextSecret ==
    \/ \E via \in Methods : Call0(via)
    \/ \E c \in Verbs : CallFormat(c)
    \/ \E via \in {"IsZero", "Equal"}, other \in {secret} \cup Texts : CallBool(via, other)
    \/ \E data \in Texts : CallUnmarshalText(data)

SpecSecret == InitSecret /\ [][NextSecret]_vars

\* ------------------------------------------------------------------------
\* One session whose transcript is kept: the commands of its transactions
\* ------------------------------------------------------------------------
Observed == {1}

SessionAddresses == {AddrAX, AddrBX, AddrAY}

InitSession ==
    /\ cfg \in {Config(a, FALSE) : a \in BOOLEAN}
    /\ userDb = NewUserDb(cfg.AuthEnabled)
    /\ authenticated = [s \in Sessions |-> FALSE]
    /\ pc = [s \in Sessions |-> "idle"]
    /\ pending = [s \in Sessions |-> NoPending]
    /\ emailChan = <<>>
    /\ built = 0
    /\ last = NoCall
    /\ txn = [s \in Sessions |-> NoTxn(s \in Observed)]
    /\ cpc = "recv"
    /\ e = NoEmail
    /\ ri = 0
    /\ calls = <<>>
    /\ posted = NoMessage
    /\ polIn = NoPolIn
    /\ polOut = NoPolOut
    /\ dbFile = NoDbFile
    /\ dbOut = NoDbOut
    /\ confIn = NoConfIn
    /\ confOut = NoConfOut
    /\ secret = <<>>
    /\ shown = NoShown
    /\ ids = NoIds(FALSE)

NextSession ==
    \/ \E s \in Observed, c \in Credentials : Auth(s, c[1], c[2])
    \/ \E s \in Observed, a \in SessionAddresses : MailFrom(s, a)
    \/ \E s \in Observed, a \in SessionAddresses : RcptTo(s, a)
    \/ \E s \in Observed, raw \in Payloads : DataBegin(s, raw)
    \/ \E s \in Observed : DataSend(s)
    \/ \E s \in Observed : DataReturn(s)
    \/ \E s \in Observed : Reset(s)

SpecSession == InitSession /\ [][NextSession]_vars

\* ------------------------------------------------------------------------
\* The channel about to fill: the sessions have sent emailChanCap - 1 emails
\* that the consumer has not received yet
\* ------------------------------------------------------------------------
QueuedEmail == Data(FALSE, FALSE, RawDupRcpt).email

InitQueue ==
    /\ cfg = Config(FALSE, FALSE)
    /\ userDb = NewUserDb(cfg.AuthEnabled)
    /\ authenticated = [s \in Sessions |-> FALSE]
    /\ pc = [s \in Sessions |-> "idle"]
    /\ pending = [s \in Sessions |-> NoPending]
    /\ emailChan = [i \in 1..(emailChanCap - 1) |-> QueuedEmail]
    /\ built = 0
    /\ last = NoCall
    /\ txn = [s \in Sessions |-> NoTxn(FALSE)]
    /\ cpc = "recv"
    /\ e = NoEmail
    /\ ri = 0
    /\ calls = <<>>
    /\ posted = NoMessage
    /\ polIn = NoPolIn
    /\ polOut = NoPolOut
    /\ dbFile = NoDbFile
    /\ dbOut = NoDbOut
    /\ confIn = NoConfIn
    /\ confOut = NoConfOut
    /\ secret = <<>>
    /\ shown = NoShown
    /\ ids = NoIds(FALSE)

NextQueue ==
    \/ \E s \in Sessions : DataBegin(s, RawDupRcpt)
    \/ \E s \in Sessions : DataSend(s)
    \/ \E s \in Sessions : DataReturn(s)
    \/ ConsumerRecv
    \/ \E slack \in SlackOutcomes : ConsumerSend(slack)

SpecQueue == InitQueue /\ [][NextQueue]_vars

\* the goroutines keep running: the consumer receives when an email waits and
\* its Slack calls return; a session blocked in its send is woken when the
\* channel has room, and goes on to its return
FairSpecQueue ==
    /\ SpecQueue
    /\ WF_vars(ConsumerRecv)
    /\ WF_vars(\E slack \in SlackOutcomes : ConsumerSend(slack))
    /\ \A s \in Sessions : WF_vars(DataSend(s)) /\ WF_vars(DataReturn(s))

\* ------------------------------------------------------------------------
\* Properties
\* ------------------------------------------------------------------------

\* the address matches the pattern, the pattern being well formed
Matches(pattern, address) ==
    LET m == Match(pattern, address) IN m.matched /\ ~m.err

MatchesSome(list, address) == \E i \in 1..Len(list) : Matches(list[i], address)

\* C1: Mail, Rcpt and Data return the auth-required error exactly when the
\* server requires authentication and the session is not authenticated, after
\* any sequence of commands; without required authentication none of them
\* returns it, whatever the flag.
ThmC1_AuthGate ==
    /\ last.cmd \in {"Mail", "Rcpt", "Data"} =>
          (last.err = ErrAuthRequired <=>
              (requireAuth(last.sess) /\ ~authenticated[last.sess]))
    /\ \A req \in BOOLEAN, auth \in BOOLEAN :
          /\ last.cmd = "Mail" =>
                (Mail(req, auth, cfg.From, last.arg) = ErrAuthRequired <=> (req /\ ~auth))
          /\ last.cmd = "Rcpt" =>
                (Rcpt(req, auth, cfg.To, last.arg) = ErrAuthRequired <=> (req /\ ~auth))
          /\ last.cmd = "Data" =>
                (Data(req, auth, last.arg).err = ErrAuthRequired <=> (req /\ ~auth))

\* an unauthenticated session is refused while the other session is authenticated
WitC1_Refused ==
    /\ last.cmd \in {"Mail", "Rcpt", "Data"}
    /\ last.err = ErrAuthRequired
    /\ ~authenticated[last.sess]
    /\ \E s \in Sessions : authenticated[s]

\* C2: an address that matches a well-formed pattern of the deny list is
\* rejected, also when it matches the allow list and the default is allow.
ThmC2_DenyWins ==
    (polOut.done /\ MatchesSome(polIn.denyList, polIn.address)) => ~polOut.allowed

WitC2_DenyAndAllow ==
    /\ polOut.done
    /\ MatchesSome(polIn.denyList, polIn.address)
    /\ MatchesSome(polIn.allowList, polIn.address)
    /\ polIn.defaultPolicy = PolicyAllow
    /\ ~polOut.allowed

\* C3: an address matching no pattern of either list is accepted exactly when
\* the default action is allow; deny and any other value reject it.
ThmC3_DefaultAction ==
    (/\ polOut.done
     /\ ~MatchesSome(polIn.denyList, polIn.address)
     /\ ~MatchesSome(polIn.allowList, polIn.address))
        => (polOut.allowed <=> polIn.defaultPolicy = PolicyAllow)

WitC3_Unrecognized ==
    /\ polOut.done
    /\ polIn.allowList # <<>>
    /\ polIn.denyList # <<>>
    /\ ~MatchesSome(polIn.denyList, polIn.address)
    /\ ~MatchesSome(polIn.allowList, polIn.address)
    /\ polIn.defaultPolicy \notin {PolicyAllow, PolicyDeny}
    /\ ~polOut.allowed

\* the SendMessage calls made for recipient number i of the email e
CallsFor(i) == SelectSeq(calls, LAMBDA c : c.index = i)

\* the consumer has left recipient number i of the email e behind
Done(i) == ri > i \/ (ri = i /\ cpc = "recv")

\* C4: the retry that follows a failed rich-format call is the only further
\* call for that recipient and is made with useRichFormat = FALSE, plain text
\* being forced. (That every kind of failure is retried is C5.)
CexC4_RetryForcesPlainText ==
    \A i \in 1..Len(e.To) :
        LET cs == CallsFor(i) IN
        Len(cs) >= 2 =>
            /\ Len(cs) = 2
            /\ cs[1].err # "nil" /\ cs[1].preferHTMLBody
            /\ ~cs[2].preferHTMLBody

\* C5 as stated: every failure of a call that asked for the rich format is
\* followed by a retry, whatever the kind of the failure.
CexC5_AnyFailureRetried ==
    \A i \in 1..Len(e.To) :
        LET cs == CallsFor(i) IN
        (Done(i) /\ cs # <<>> /\ cs[1].err # "nil" /\ cs[1].preferHTMLBody)
            => Len(cs) = 2

\* C5 amended: a failed call is followed by a retry exactly when the rich
\* format is preferred and the failure is an ErrSendMessage; ErrUserNotFound
\* and ErrUserDM are never retried.
ThmC5_RetryOnSendFailureOnly ==
    \A i \in 1..Len(e.To) :
        LET cs == CallsFor(i) IN
        (cs # <<>> /\ (Done(i) \/ cpc = "retry"))
            => ((Len(cs) = 2 \/ (ri = i /\ cpc = "retry"))
                   <=> (cs[1].err = ErrSendMessage /\ cs[1].preferHTMLBody))

\* one recipient failed with ErrUserNotFound or ErrUserDM in rich format and
\* was not retried, another failed with ErrSendMessage and was
WitC5_BothKinds ==
    /\ cfg.PreferHTMLBody
    /\ cpc = "recv"
    /\ Len(e.To) = 2
    /\ Len(CallsFor(1)) = 1
    /\ CallsFor(1)[1].err \in {ErrUserNotFound, ErrUserDM}
    /\ Len(CallsFor(2)) = 2
    /\ CallsFor(2)[1].err = ErrSendMessage

\* C6: for each recipient of a dequeued email SendMessage is called at most
\* twice, never after a call that succeeded, and exactly once when plain text
\* is the configured preference.
ThmC6_BoundedCalls ==
    \A i \in 1..Len(e.To) :
        LET cs == CallsFor(i) IN
        /\ Len(cs) <= 2
        /\ \A k \in 1..(Len(cs) - 1) : cs[k].err # "nil"
        /\ Done(i) => Len(cs) >= 1
        /\ ~cfg.PreferHTMLBody => (Len(cs) <= 1 /\ ~(ri = i /\ cpc = "retry"))

\* a plain-text failure was final
WitC6_PlainFailureFinal ==
    /\ ~cfg.PreferHTMLBody
    /\ cpc = "recv"
    /\ Len(e.To) = 2
    /\ Len(CallsFor(1)) = 1
    /\ CallsFor(1)[1].err = ErrSendMessage
    /\ Len(CallsFor(2)) = 1

\* C7: SendMessage is called for every recipient of the email whatever became
\* of the recipients before it: the consumer stands at a recipient of the
\* email until all are served, and is back at the receive only then.
ThmC7_RecipientsIsolated ==
    /\ cpc \in {"send", "retry"} => ri \in 1..Len(e.To)
    /\ cpc = "send" => \A i \in 1..(ri - 1) : CallsFor(i) # <<>>
    /\ cpc = "retry" => \A i \in 1..ri : CallsFor(i) # <<>>
    /\ cpc = "recv" => \A i \in 1..Len(e.To) : CallsFor(i) # <<>>

\* the first recipient failed twice and the second was still served
WitC7_AfterExhaustion ==
    /\ cpc = "recv"
    /\ Len(e.To) = 2
    /\ Len(CallsFor(1)) = 2
    /\ CallsFor(1)[2].err # "nil"
    /\ CallsFor(2) # <<>>

\* the session passes the authentication gate
GatePasses(s) == ~(requireAuth(s) /\ ~authenticated[s])

\* the addresses of the first header line of the given name, <<>> without one
FirstHeader(raw, name) ==
    LET idx == {i \in 1..Len(raw.headers) : raw.headers[i].name = name} IN
    IF idx = {} THEN <<>>
    ELSE raw.headers[CHOOSE i \in idx : \A j \in idx : i <= j].addrs

Unparseable(raw) == ~raw.readErr /\ MalformedLine \in {raw.headers[i] : i \in 1..Len(raw.headers)}

Parseable(raw) == ~raw.readErr /\ ~Unparseable(raw)

\* the payloads of C8: readable, with a line that is no header line
UnparseablePayloads == {raw \in Payloads : Unparseable(raw)}

\* the payloads of C9: parseable, without a From address or without a To address
IncompletePayloads ==
    {raw \in Payloads :
        /\ Parseable(raw)
        /\ (FirstHeader(raw, "From") = <<>> \/ FirstHeader(raw, "To") = <<>>)}

\* the payloads of C10: parseable, with a From address and a To address
CompletePayloads ==
    {raw \in Payloads :
        /\ Parseable(raw)
        /\ FirstHeader(raw, "From") # <<>>
        /\ FirstHeader(raw, "To") # <<>>}

\* the handler returned at once: nothing was sent and the session is as before
ReturnedNilAtOnce(s, raw) ==
    /\ last' = Returned(s, "Data", raw, "nil")
    /\ emailChan' = emailChan
    /\ pc' = pc
    /\ pending' = pending
    /\ authenticated' = authenticated

\* C8: a payload that cannot be parsed makes Data return nil, puts nothing
\* on the channel and leaves the session as it was.
ThmC8_ParseFailureAbsorbed ==
    [][\A s \in Sessions, raw \in UnparseablePayloads :
          (GatePasses(s) /\ DataBegin(s, raw)) => ReturnedNilAtOnce(s, raw)]_vars

WitC8_GarbageAccepted ==
    /\ last.cmd = "Data"
    /\ last.arg = RawGarbage
    /\ last.err = "nil"
    /\ requireAuth(last.sess) /\ authenticated[last.sess]
    /\ emailChan = <<>> /\ built = 0

\* C9: a payload that parses but has no From address, or no To address,
\* makes Data return nil and puts nothing on the channel.
ThmC9_NoSenderOrRecipient ==
    [][\A s \in Sessions, raw \in IncompletePayloads :
          (GatePasses(s) /\ DataBegin(s, raw)) => ReturnedNilAtOnce(s, raw)]_vars

WitC9_NoToAccepted ==
    /\ last.cmd = "Data"
    /\ last.arg = RawNoTo
    /\ last.err = "nil"
    /\ requireAuth(last.sess) /\ authenticated[last.sess]
    /\ emailChan = <<>> /\ built = 0

\* the email Data is to build from a payload with a sender and a recipient
ExpectedEmail(raw) ==
    [Body |-> [HTML |-> raw.html, Text |-> raw.text],
     From |-> FirstHeader(raw, "From")[1],
     Subject |-> IF \E i \in 1..Len(raw.headers) : raw.headers[i].name = "Subject"
                 THEN (CHOOSE h \in {raw.headers[i] : i \in 1..Len(raw.headers)} :
                          h.name = "Subject").text
                 ELSE "",
     To |-> FirstHeader(raw, "To")]

ExpectedEmails == [raw \in CompletePayloads |-> ExpectedEmail(raw)]

\* C10: a Data call that passes the gate on a parseable payload with a sender
\* and a recipient puts exactly one email on the channel, with all the
\* recipients of the payload in their order, duplicates kept, and the first
\* sender; it then returns nil.
ThmC10_OneEmailEnqueued ==
    [][/\ \A s \in Sessions, raw \in CompletePayloads :
            (GatePasses(s) /\ DataBegin(s, raw))
                => /\ pc'[s] = "send"
                   /\ pending'[s] = [raw |-> raw, email |-> ExpectedEmails[raw]]
                   /\ emailChan' = emailChan
       /\ \A s \in Sessions :
            (pc[s] = "send" /\ pc'[s] # "send")
                => /\ pc'[s] = "ret"
                   /\ emailChan' = Append(emailChan, pending[s].email)
                   /\ pending'[s] = pending[s]
       /\ \A s \in Sessions :
            (pc[s] = "ret" /\ pc'[s] # "ret")
                => /\ pc'[s] = "idle"
                   /\ last' = Returned(s, "Data", pending[s].raw, "nil")
       /\ Len(emailChan') > Len(emailChan)
                => \E s \in Sessions : pc[s] = "send" /\ pc'[s] = "ret"
       /\ \A s \in Sessions :
            (pc[s] = "idle" /\ pc'[s] # "idle") => pc'[s] = "send"]_vars

\* the email with the repeated recipient is on the channel, both copies kept
WitC10_DuplicatesKept ==
    \E s \in Sessions :
        /\ pc[s] = "ret"
        /\ pending[s].raw = RawDupRcpt
        /\ emailChan # <<>>
        /\ emailChan[Len(emailChan)] = pending[s].email
        /\ emailChan[Len(emailChan)].To = <<AddrAY, AddrAY>>
        /\ emailChan[Len(emailChan)].From = AddrBX

\* the rule set rejects the address: a well-formed deny pattern matches it, or
\* no well-formed allow pattern does and the default action is not allow
PolicyRejects(policy, address) ==
    \/ MatchesSome(policy.Deny, address)
    \/ (~MatchesSome(policy.Allow, address) /\ policy.DefaultAction # PolicyAllow)

\* the session has built an email in a transaction that has an accepted sender
\* and an accepted recipient
BuiltInTransaction(s) ==
    /\ txn[s].on
    /\ pc[s] \in {"send", "ret"}
    /\ txn[s].from # <<>>
    /\ txn[s].rcpts # <<>>

\* C11: the recipients of the email Data puts on the channel are the addresses
\* RCPT TO accepted in the transaction, in the order of their acceptance,
\* duplicates kept; no refused and no unsubmitted address is among them.
CexC11_RecipientsFromRcpt ==
    \A s \in Observed :
        BuiltInTransaction(s) => pending[s].email.To = txn[s].rcpts

\* C12: past the gate, Mail returns the 550 "Sender not allowed" exactly when
\* the sender rule set rejects the address and nil otherwise, and the sender
\* of the email Data puts on the channel is the address Mail accepted.
CexC12_SenderCheckedAndRecorded ==
    /\ (last.cmd = "Mail" /\ GatePasses(last.sess))
          => last.err = (IF PolicyRejects(cfg.From, last.arg)
                         THEN ErrSenderNotAllowed ELSE "nil")
    /\ \A s \in Observed :
          BuiltInTransaction(s) => pending[s].email.From = txn[s].from

\* C13: past the gate, Rcpt returns the 550 "Recipient not allowed" exactly
\* when the recipient rule set rejects its address and nil otherwise, whatever
\* was accepted or refused before it in the transaction.
ThmC13_RcptPerAddress ==
    [][\A s \in Observed, a \in SessionAddresses :
          (GatePasses(s) /\ RcptTo(s, a))
             => last'.err = (IF PolicyRejects(cfg.To, a)
                             THEN ErrRecipientNotAllowed ELSE "nil")]_vars

\* an allowed address is accepted after another address was refused in the
\* same transaction
WitC13_AcceptedAfterRefusal ==
    /\ last = Returned(1, "Rcpt", AddrBX, "nil")
    /\ AddrAY \in txn[1].refused
    /\ txn[1].rcpts = <<AddrAX, AddrBX>>

RightCredentials == <<"testuser", "password123">>
WrongPassword == <<"testuser", "wrong">>
UnknownUser == <<"nobody", "password123">>

\* the username is in the user database and the password is the one whose
\* hash is stored for it
Verifies(c) == cfg.AuthEnabled /\ c = RightCredentials

\* C14: a PLAIN submission sets the authenticated flag and returns nil exactly
\* when the user is known and the password verifies; otherwise it returns
\* ErrAuthFailed and leaves the flag as it was. This holds after any number of
\* failed submissions: there is no lockout.
ThmC14_PlainAuth ==
    [][\A s \in Observed, c \in Credentials :
          Auth(s, c[1], c[2])
             => /\ Verifies(c) => (authenticated'[s] /\ last'.err = "nil")
                /\ ~Verifies(c) => /\ last'.err = ErrAuthFailed
                                   /\ authenticated'[s] = authenticated[s]]_vars

\* a right submission succeeds after a failed one
WitC14_SuccessAfterFailure ==
    /\ last = Returned(1, "Auth", RightCredentials, "nil")
    /\ txn[1].authFailed
    /\ authenticated[1]

\* C15: a submission for an unknown user and one with a wrong password for a
\* known user have the same outcome: in every state the callback gives the
\* same result for both, and either step returns ErrAuthFailed and changes
\* nothing else of the server.
ThmC15_FailuresAlike ==
    [][\A s \in Observed :
          /\ PlainAuth(userDb, authenticated[s], UnknownUser[1], UnknownUser[2])
                = PlainAuth(userDb, authenticated[s], WrongPassword[1], WrongPassword[2])
          /\ \A c \in {UnknownUser, WrongPassword} :
                Auth(s, c[1], c[2])
                   => /\ last'.err = ErrAuthFailed
                      /\ authenticated' = authenticated
                      /\ UNCHANGED <<cfg, userDb, emailChan, pc, pending, built, ids>>]_vars

\* a wrong password for a known user was refused where an unknown user is
\* refused too
WitC15_WrongPasswordRefused ==
    /\ cfg.AuthEnabled
    /\ WrongPassword[1] \in DOMAIN userDb
    /\ UnknownUser[1] \notin DOMAIN userDb
    /\ last = Returned(1, "Auth", WrongPassword, ErrAuthFailed)
    /\ ~authenticated[1]

\* C16: a session of a server that does not require authentication offers no
\* mechanism and is never authenticated; a session of a server that requires
\* it offers PLAIN and nothing else.
ThmC16_AuthOnlyWhenRequired ==
    \A s \in Sessions :
        /\ requireAuth(s) => AuthMechanisms(s) = <<"PLAIN">>
        /\ ~requireAuth(s) => (AuthMechanisms(s) = <<>> /\ ~authenticated[s])

\* without required authentication, a submission of the credentials that
\* would be right was refused
WitC16_RefusedWhenNotRequired ==
    /\ ~cfg.AuthEnabled
    /\ last.cmd = "Auth"
    /\ last.arg = RightCredentials
    /\ last.err = ErrAuthFailed
    /\ ~authenticated[last.sess]

\* C17: no step sets the authenticated flag of a session back to false.
ThmC17_AuthenticatedStays ==
    [][\A s \in Sessions : authenticated[s] => authenticated'[s]]_vars

\* an authenticated session is still authenticated after a failed submission
WitC17_StillAfterFailure ==
    /\ last.cmd = "Auth"
    /\ last.err = ErrAuthFailed
    /\ authenticated[last.sess]

\* C18: Reset leaves the authenticated flag as it is, and no address that was
\* accepted only before a Reset is the sender or a recipient of an email built
\* by a Data after it.
CexC18_ResetClearsTransaction ==
    [][\A s \in Observed :
          /\ Reset(s) => authenticated' = authenticated
          /\ (pc[s] = "idle" /\ BuiltInTransaction(s)')
                => \A a \in txn[s].before :
                      /\ a # pending'[s].email.From
                      /\ a \notin Range(pending'[s].email.To)]_vars

\* every SendMessage call logged is a call for a recipient of the email e,
\* and the calls follow the order of e.To
CallsInOrder ==
    \A k \in 1..Len(calls) :
        /\ calls[k].index \in 1..Len(e.To)
        /\ calls[k].index <= ri
        /\ calls[k].recipient = e.To[calls[k].index]
        /\ k < Len(calls) => calls[k].index <= calls[k + 1].index

\* C19: emails join the channel at its tail and the consumer takes the one at
\* its head, only when it has served every recipient of the email before it;
\* the calls for one email follow the order of its To list.
ThmC19_Fifo ==
    /\ [](CallsInOrder /\ (cpc = "recv" => \A i \in 1..Len(e.To) : CallsFor(i) # <<>>))
    /\ [][/\ Len(emailChan') > Len(emailChan)
               => \E s \in Sessions : emailChan' = Append(emailChan, pending[s].email)
          /\ Len(emailChan') < Len(emailChan)
               => /\ cpc = "recv"
                  /\ e' = Head(emailChan)
                  /\ emailChan' = Tail(emailChan)
                  /\ calls' = <<>>
          /\ Len(emailChan') >= Len(emailChan) => e' = e
          /\ calls' # calls /\ calls' # <<>>
               => /\ Len(calls') = Len(calls) + 1
                  /\ SubSeq(calls', 1, Len(calls)) = calls
                  /\ calls'[Len(calls')].index = ri]_vars

\* the consumer serves the second recipient of one email while another email,
\* whose Data has not returned yet, waits on the channel
WitC19_SecondWaits ==
    /\ cpc = "send"
    /\ ri = 2
    /\ e = ExpectedEmails[RawTwoRcpt]
    /\ calls # <<>>
    /\ emailChan = <<ExpectedEmails[RawDupRcpt]>>
    /\ \E s \in Sessions : pc[s] = "ret" /\ pending[s].raw = RawDupRcpt

\* C20: the channel never holds more than emailChanCap emails.
ThmC20_QueueBounded == Len(emailChan) <= emailChanCap

\* the channel is full and a session waits to send
WitC20_FullAndBlocked ==
    /\ Len(emailChan) = emailChanCap
    /\ \E s \in Sessions : pc[s] = "send"

\* C21: a Data call at its channel send stays there, its email kept, while the
\* channel is full; it leaves the send only by appending its email to the
\* channel, once, and then returns nil; and it does leave it: the consumer
\* makes room and the call returns.
ThmC21_Backpressure ==
    /\ [][\A s \in Sessions :
            /\ (pc[s] = "send" /\ Len(emailChan) = emailChanCap)
                  => (pc'[s] = "send" /\ pending'[s] = pending[s])
            /\ (pc[s] = "send" /\ pc'[s] # "send")
                  => /\ pc'[s] = "ret"
                     /\ pending'[s] = pending[s]
                     /\ emailChan' = Append(emailChan, pending[s].email)
            /\ (pc[s] = "ret" /\ pc'[s] # "ret")
                  => /\ pc'[s] = "idle"
                     /\ emailChan' = emailChan
                     /\ last' = Returned(s, "Data", pending[s].raw, "nil")
            /\ (pc[s] = "ret" /\ pc'[s] = "ret" /\ Len(emailChan') > Len(emailChan))
                  => \E t \in Sessions \ {s} : pc[t] = "send" /\ pc'[t] = "ret"]_vars
    /\ \A s \in Sessions :
          (pc[s] = "send")
             ~> (pc[s] = "idle" /\ last = Returned(s, "Data", RawDupRcpt, "nil"))

\* more emails were sent than the channel holds: the channel is full again
\* after the consumer took one email, and every Data call has returned
WitC21_SentAfterWaiting ==
    /\ Len(emailChan) = emailChanCap
    /\ cpc = "send"
    /\ built >= 2
    /\ \A s \in Sessions : pc[s] = "idle"
    /\ last.cmd = "Data" /\ last.err = "nil"

\* C22: the consumer makes no SendMessage call for an email before the Data
\* call that sent it has returned. (Stated for the first email built, which is
\* then the only one the consumer can hold.)
CexC22_AckBeforeDelivery ==
    \A s \in Sessions :
        (pc[s] = "ret" /\ built = 1) => ~(e = pending[s].email /\ calls # <<>>)

\* C23 as stated: Mail, Rcpt and Data return nil, the auth-required error or
\* a 550 policy rejection, and nothing else.
CexC23_OnlyAuthAndPolicyErrors ==
    /\ last.cmd = "Mail" => last.err \in {"nil", ErrAuthRequired, ErrSenderNotAllowed}
    /\ last.cmd = "Rcpt" => last.err \in {"nil", ErrAuthRequired, ErrRecipientNotAllowed}
    /\ last.cmd = "Data" => last.err \in {"nil", ErrAuthRequired}

\* C23 amended: besides nil, the auth-required error and the 550 rejections,
\* Data returns the error of reading its payload, and only then; a payload
\* that cannot be parsed gives nil, and a Data call that has sent its email
\* returns nil whatever the consumer's SendMessage calls return.
ThmC23_ErrorsReturned ==
    /\ [](/\ last.cmd = "Mail"
              => last.err \in {"nil", ErrAuthRequired, ErrSenderNotAllowed}
          /\ last.cmd = "Rcpt"
              => last.err \in {"nil", ErrAuthRequired, ErrRecipientNotAllowed}
          /\ last.cmd = "Data"
              => /\ last.err \in {"nil", ErrAuthRequired, ErrRead}
                 /\ last.err = ErrRead <=> (GatePasses(last.sess) /\ last.arg.readErr)
                 /\ (GatePasses(last.sess) /\ Unparseable(last.arg)) => last.err = "nil")
    /\ [][\A s \in Sessions :
            (pc[s] = "ret" /\ pc'[s] # "ret")
               => last' = Returned(s, "Data", pending[s].raw, "nil")]_vars

\* Data returned the error of reading its payload
WitC23_ReadErrorReturned ==
    /\ last.cmd = "Data"
    /\ last.arg = RawUnreadable
    /\ last.err = ErrRead
    /\ requireAuth(last.sess) /\ authenticated[last.sess]

\* strings.ToLower on the letters of the model
Lower(c) == IF c = "A" THEN "a" ELSE c
ToLower(str) == [i \in 1..Len(str) |-> Lower(str[i])]
ToLowerAll(list) == [i \in 1..Len(list) |-> ToLower(list[i])]

\* C24: matching is case-insensitive: the decision for an address under the
\* lists is the decision for the lower-cased address under the lower-cased
\* lists.
CexC24_CaseInsensitive ==
    polOut.done
       => polOut.allowed = isAddressAllowed(ToLower(polIn.address),
                                            ToLowerAll(polIn.allowList),
                                            ToLowerAll(polIn.denyList),
                                            polIn.defaultPolicy)

\* the pattern is malformed: filepath.Match answers ErrBadPattern
Malformed(pattern) == \E a \in PolAddresses \cup {<<>>} : Match(pattern, a).err

WellFormedOnly(list) == SelectSeq(list, LAMBDA p : ~Malformed(p))

\* C25: the decision under lists that hold malformed patterns is the decision
\* under the same lists without them; the evaluation always ends with a
\* decision.
ThmC25_MalformedSkipped ==
    /\ polOut.done
          => /\ polOut.allowed \in BOOLEAN
             /\ polOut.allowed = isAddressAllowed(polIn.address,
                                                  WellFormedOnly(polIn.allowList),
                                                  WellFormedOnly(polIn.denyList),
                                                  polIn.defaultPolicy)
    /\ ~polOut.done
          => isAddressAllowed(polIn.address, polIn.allowList, polIn.denyList,
                              polIn.defaultPolicy) \in BOOLEAN

\* a malformed pattern stands first in both lists and the address is allowed
\* by the allow pattern after it
WitC25_AllowedPastMalformed ==
    /\ polOut.done
    /\ polIn.denyList = << <<"[">> >>
    /\ Len(polIn.allowList) = 2
    /\ Malformed(polIn.allowList[1])
    /\ Matches(polIn.allowList[2], polIn.address)
    /\ polIn.defaultPolicy = PolicyDeny
    /\ polOut.allowed

\* the orderings of a list
Orderings(list) ==
    {[i \in 1..Len(list) |-> list[f[i]]] :
        f \in {g \in [1..Len(list) -> 1..Len(list)] :
                  \A i, j \in 1..Len(list) : i # j => g[i] # g[j]}}

\* C26: the decision is a function of the address, the patterns of each list
\* and the default action: evaluated again it is the same, and it is the same
\* for every ordering of the allow list and of the deny list, and when the
\* patterns are listed twice.
ThmC26_PureAndOrderFree ==
    polOut.done
       => /\ \A a \in Orderings(polIn.allowList), d \in Orderings(polIn.denyList) :
                isAddressAllowed(polIn.address, a, d, polIn.defaultPolicy) = polOut.allowed
          /\ isAddressAllowed(polIn.address, polIn.allowList \o polIn.allowList,
                               polIn.denyList \o polIn.denyList, polIn.defaultPolicy)
                = polOut.allowed

\* the second pattern of the deny list decides, past a first one that does
\* not match, with two different allow patterns
WitC26_SecondPatternDecides ==
    /\ polOut.done
    /\ Len(polIn.denyList) = 2
    /\ ~Matches(polIn.denyList[1], polIn.address)
    /\ Matches(polIn.denyList[2], polIn.address)
    /\ Len(polIn.allowList) = 2
    /\ polIn.allowList[1] # polIn.allowList[2]
    /\ Matches(polIn.allowList[1], polIn.address)
    /\ ~polOut.allowed

\* ------------------------------------------------------------------------
\* The user database file
\* ------------------------------------------------------------------------
\* a line that is neither blank nor a comment and has a colon to split on
WellFormed(text) ==
    /\ TrimSpace(text) # <<>>
    /\ Head(TrimSpace(text)) # "#"
    /\ \E i \in 1..Len(TrimSpace(text)) : TrimSpace(text)[i] = ":"

FirstColon(text) ==
    CHOOSE i \in 1..Len(TrimSpace(text)) :
        /\ TrimSpace(text)[i] = ":"
        /\ \A j \in 1..(i - 1) : TrimSpace(text)[j] # ":"

\* the two fields of a well-formed line
UsernameOf(text) == SubSeq(TrimSpace(text), 1, FirstColon(text) - 1)
HashOf(text) == SubSeq(TrimSpace(text), FirstColon(text) + 1, Len(TrimSpace(text)))

WellFormedAt(lines) == {i \in 1..Len(lines) : WellFormed(lines[i])}

Loaded == dbOut.done /\ dbFile.opens /\ ~dbFile.scanErr

\* C27, as stated: loading a readable file with N well-formed lines and M
\* blank, comment or malformed lines succeeds and the store has exactly N
\* entries.
CexC27_OneEntryPerLine ==
    Loaded => /\ dbOut.err = "nil"
              /\ Cardinality(DOMAIN dbOut.users) = Cardinality(WellFormedAt(dbFile.lines))

\* C27, amended: loading a readable file succeeds whatever its blank, comment
\* and malformed lines, and the store holds exactly one entry per distinct
\* username of the well-formed lines, keyed by that username; it has exactly
\* N entries when the N well-formed lines carry N different usernames, and
\* fewer otherwise.
ThmC27_OneEntryPerUsername ==
    Loaded =>
        LET at == WellFormedAt(dbFile.lines)
            names == {UsernameOf(dbFile.lines[i]) : i \in at}
        IN  /\ dbOut.err = "nil"
            /\ DOMAIN dbOut.users = names
            /\ \A u \in names : dbOut.users[u].username = u
            /\ Cardinality(DOMAIN dbOut.users) <= Cardinality(at)
            /\ (Cardinality(names) = Cardinality(at)
                   => Cardinality(DOMAIN dbOut.users) = Cardinality(at))

\* a file of a well-formed line, a colon-less line and a second well-formed
\* line with another username has been loaded into two entries
WitC27_TwoOfThreeLines ==
    /\ Loaded
    /\ Len(dbFile.lines) = 3
    /\ WellFormedAt(dbFile.lines) = {1, 3}
    /\ dbFile.lines[2] = <<"a", "b">>
    /\ Cardinality(DOMAIN dbOut.users) = 2

\* C28: when a username occurs on several well-formed lines, its entry
\* carries the hash of the last such line, and every other username keeps
\* the hash of its own last line.
ThmC28_LastOccurrenceWins ==
    Loaded =>
        \A i \in WellFormedAt(dbFile.lines) :
            (\A j \in WellFormedAt(dbFile.lines) :
                 j > i => UsernameOf(dbFile.lines[j]) # UsernameOf(dbFile.lines[i]))
            => /\ UsernameOf(dbFile.lines[i]) \in DOMAIN dbOut.users
               /\ dbOut.users[UsernameOf(dbFile.lines[i])]
                      = [username |-> UsernameOf(dbFile.lines[i]),
                         passwordHash |-> HashOf(dbFile.lines[i])]

\* a username given twice with different hashes around another username:
\* the second hash is stored and the other entry is as its line gave it
WitC28_SecondHashStored ==
    /\ Loaded
    /\ dbFile.lines = << <<"a", ":", "1">>, <<"b", ":", "1">>, <<"a", ":", "2">> >>
    /\ DOMAIN dbOut.users = {<<"a">>, <<"b">>}
    /\ dbOut.users[<<"a">>].passwordHash = <<"2">>
    /\ dbOut.users[<<"b">>].passwordHash = <<"1">>

\* ------------------------------------------------------------------------
\* The HTML preference and the plain-text body
\* ------------------------------------------------------------------------
\* C29: with prefer-html-body true, an email whose HTML body is blank and
\* whose plain-text body is not is still delivered to each recipient from
\* its plain-text body when Slack finds the user, opens the DM and posts:
\* the call that follows the refused HTML call succeeds.
CexC29_TextWhenHtmlEmpty ==
    (/\ cpc = "retry"
     /\ cfg.PreferHTMLBody
     /\ TrimSpace(e.Body.HTML) = <<>>
     /\ TrimSpace(e.Body.Text) # <<>>)
    => SendMessage(e.To[ri], e.From, e.To, e.Subject, e.Body,
                   RetryPreferHTMLBody, SlackAnswer(TRUE, TRUE, TRUE)) = "nil"

\* ------------------------------------------------------------------------
\* Precedence of the configuration sources
\* ------------------------------------------------------------------------
\* an environment variable supplies a setting when it is set to something
EnvGiven(env) == env # Unset /\ env # <<>>

\* value is what the precedence flag, environment, file, default gives
Follows(value, flag, env, file, default) ==
    /\ flag # Unset => value = flag
    /\ (flag = Unset /\ EnvGiven(env)) => value = env
    /\ (flag = Unset /\ ~EnvGiven(env) /\ file # Unset) => value = file
    /\ (flag = Unset /\ ~EnvGiven(env) /\ file = Unset) <=> value = default

ConfigLoaded == confOut.done /\ confOut.err = "nil"

\* the token the command line supplies: the content of the file --slack.token-file names
TokenOfFlag ==
    IF confIn.flag.tokenFile # Unset THEN TrimSpace(confIn.tokenFileContent) ELSE Unset

\* the token the configuration file supplies: the content of the file its
\* slack.token-file key names, else its slack.token key
TokenOfFile ==
    IF confIn.file.tokenFile # Unset THEN TrimSpace(confIn.tokenFileContent)
    ELSE confIn.file.token

\* C30, as stated: every setting follows flag over environment variable over
\* configuration file over default; a flag wins over both others and the
\* default is used only when none of the three supplies the setting. Checked
\* for log-level, smtp.listen-addr and slack.token, a token file counting as
\* supplied by the source that names it.
CexC30_FlagEnvFileDefault ==
    ConfigLoaded =>
        /\ Follows(confOut.cfg.LogLevel, confIn.flag.logLevel, confIn.env.LOG_LEVEL,
                   confIn.file.logLevel, DefaultLogLevel)
        /\ Follows(confOut.cfg.ListenAddr, confIn.flag.listenAddr, Unset,
                   confIn.file.listenAddr, DefaultListenAddr)
        /\ Follows(confOut.cfg.Token, TokenOfFlag, confIn.env.SLACK_TOKEN,
                   TokenOfFile, <<>>)

\* the token file LoadConfig reads: the one the flag names, else the one the
\* slack.token-file key of the configuration file names
TokenFileNamed ==
    confIn.flag.tokenFile # Unset \/ confIn.file.tokenFile # Unset

\* What does hold of C30: log-level and smtp.listen-addr follow flag over environment
\* variable over configuration file over default, an empty environment
\* variable counting as unset; slack.token is the trimmed content of the token
\* file whenever one is named, by --slack.token-file or by slack.token-file
\* in the configuration file, and follows SLACK_TOKEN over the file's
\* slack.token only when no token file is named.
ThmC30_PrecedenceAndTokenFile ==
    ConfigLoaded =>
        /\ Follows(confOut.cfg.LogLevel, confIn.flag.logLevel, confIn.env.LOG_LEVEL,
                   confIn.file.logLevel, DefaultLogLevel)
        /\ Follows(confOut.cfg.ListenAddr, confIn.flag.listenAddr, Unset,
                   confIn.file.listenAddr, DefaultListenAddr)
        /\ TokenFileNamed => confOut.cfg.Token = TrimSpace(confIn.tokenFileContent)
        /\ ~TokenFileNamed => Follows(confOut.cfg.Token, Unset, confIn.env.SLACK_TOKEN,
                                      confIn.file.token, <<>>)

\* flag, environment and file give three different log levels and the
\* loaded configuration has the flag's
WitC30_FlagOverEnvAndFile ==
    /\ ConfigLoaded
    /\ confIn.flag.logLevel = <<"error">>
    /\ confIn.env.LOG_LEVEL = <<"warn">>
    /\ confIn.file.logLevel = <<"info">>
    /\ confOut.cfg.LogLevel = <<"error">>
    /\ confIn.env.SLACK_TOKEN = <<"tok-env">>
    /\ confIn.file.token = <<"tok-yaml">>
    /\ confOut.cfg.Token = <<"tok-env">>

\* ------------------------------------------------------------------------
\* Validation of the loaded configuration
\* ------------------------------------------------------------------------
Recognized == {<<"allow">>, <<"deny">>}

\* authentication is enabled, by the flag or else by the file
AuthOn ==
    \/ confIn.flag.authEnabled = BoolTrue
    \/ confIn.flag.authEnabled = Unset /\ confIn.file.authEnabled = BoolTrue

NoUserDatabase == confIn.flag.userDatabase = Unset /\ confIn.file.userDatabase = Unset

\* a token file is named and cannot be read
TokenFileUnreadable == TokenFileNamed /\ confIn.tokenFileContent = Unset

\* no token: the token file that is named holds white space only, or none
\* is named and neither SLACK_TOKEN nor the configuration file gives one
TokenMissing ==
    \/ /\ TokenFileNamed
       /\ ~TokenFileUnreadable
       /\ TrimSpace(confIn.tokenFileContent) = <<>>
    \/ /\ ~TokenFileNamed
       /\ ~EnvGiven(confIn.env.SLACK_TOKEN)
       /\ confIn.file.token = Unset

BadDefaultAction ==
    confIn.file.fromDefault \notin Recognized \/ confIn.file.toDefault \notin Recognized

\* the settings the claim calls invalid
Invalid == (AuthOn /\ NoUserDatabase) \/ TokenMissing \/ BadDefaultAction

\* the configuration file was read, or none was named and none found
FileRead == confIn.fileState \in {"found", "unnamed"}

\* smtp.auth.enabled is given as a boolean
Decodes ==
    \/ confIn.flag.authEnabled # Unset
    \/ confIn.file.authEnabled \in {Unset, BoolTrue, BoolFalse}

OneByteEach(str) == \A i \in 1..Len(str) : str[i] < 128

\* the first character of str, as bytes
FirstCharacter(str) ==
    IF TwoByteRuneAt(str, 1) THEN <<str[1], str[2]>> ELSE <<str[1]>>

\* the number of characters of str from position i on, a byte that is not
\* UTF-8 counting for one
RECURSIVE CharactersFrom(_, _)
CharactersFrom(str, i) ==
    IF i > Len(str) THEN 0
    ELSE IF TwoByteRuneAt(str, i) THEN 1 + CharactersFrom(str, i + 2)
    ELSE 1 + CharactersFrom(str, i + 1)

Stringed == shown.done /\ shown.via = "String"

\* C32: obfuscate maps the empty string to the empty string and a secret of
\* one character to "*"; of a longer secret it keeps the first character,
\* and the last one when there are at least three, and puts a star for
\* every other: "ab" -> "a*", "abcd" -> "a**d", "supersecret" -> "s********t".
CexC32_FirstAndLastKept ==
    Stringed =>
        LET n == CharactersFrom(secret, 1)
            first == FirstCharacter(secret)
        IN  /\ n = 0 => shown.out = <<>>
            /\ n = 1 => shown.out = <<Star>>
            /\ n = 2 => shown.out = first \o <<Star>>
            /\ n >= 3 => /\ SubSeq(shown.out, 1, Len(first)) = first
                         /\ CharactersFrom(shown.out, 1) = n
            /\ secret = <<97, 98, 99, 100>> => shown.out = <<97, Star, Star, 100>>
            /\ secret = Supersecret => shown.out = <<115>> \o Stars(9) \o <<116>>

\* ------------------------------------------------------------------------
\* Every queued email reaches the notifier
\* ------------------------------------------------------------------------
\* the consumer is through with the email numbered k: it was received, the
\* loop over its recipients is over and SendMessage was called for each
Served(k) ==
    /\ ids.cur = k
    /\ cpc = "recv"
    /\ \A i \in 1..Len(e.To) : CallsFor(i) # <<>>

\* C33: with the consumer scheduled and every SendMessage call returning,
\* each email in the channel is eventually received and SendMessage is
\* called at least once for each of its recipients; and an email leaves the
\* channel only at its head, into the consumer.
ThmC33_EveryEmailServed ==
    /\ \A k \in 1..MaxData : (\E i \in 1..Len(ids.queue) : ids.queue[i] = k) ~> Served(k)
    /\ [][ids.queue' # ids.queue
             => \/ ids.queue' = Append(ids.queue, ids.next)
                \/ ids.queue # <<>> /\ ids.queue' = Tail(ids.queue)
                                    /\ ids.cur' = Head(ids.queue)]_vars

\* the second email has been served, after a SendMessage call for it failed
WitC33_SecondServedDespiteFailure ==
    /\ Served(2)
    /\ Len(e.To) = 2
    /\ \E j \in 1..Len(calls) : calls[j].err # "nil" /\ calls[j].index = 1

\* ------------------------------------------------------------------------
\* The policies and the notifier
\* ------------------------------------------------------------------------
\* C34: every SendMessage call is for a recipient that the recipient rule
\* set accepts and for a sender that the sender rule set accepts, whatever
\* the headers of the payload were.
CexC34_PolicyGatedDelivery ==
    \A j \in 1..Len(calls) :
        /\ ~PolicyRejects(cfg.To, calls[j].recipient)
        /\ ~PolicyRejects(cfg.From, e.From)

\* ------------------------------------------------------------------------
\* Emails without recipients
\* ------------------------------------------------------------------------
\* C35: every email that Data put in the channel has at least one recipient,
\* so the email the consumer holds has one when Data built it; and while the
\* consumer holds an email without recipients it has made no SendMessage
\* call and is back at the receive for the next email.
ThmC35_NoRecipientsNeverSent ==
    /\ \A i \in 1..Len(emailChan) : ids.queue[i] > 0 => Len(emailChan[i].To) >= 1
    /\ ids.cur > 0 => Len(e.To) >= 1
    /\ Len(e.To) = 0 => calls = <<>> /\ cpc = "recv"

\* the email without recipients was received and passed over, and the
\* consumer has gone on to call SendMessage for an email that Data built,
\* after Data dropped a payload without a To header
WitC35_SkippedThenServed ==
    /\ ids.cur > 0
    /\ calls # <<>>
    /\ last.cmd = "Data" /\ last.arg = RawNoTo /\ last.err = "nil"

\* ------------------------------------------------------------------------
\* Two sessions at once
\* ------------------------------------------------------------------------
\* C36: in every interleaving of two sessions, a session's authenticated
\* flag changes only in a step that is this session's own Auth returning no
\* error; and a Mail, Rcpt or Data of a session that is not authenticated
\* is answered with ErrAuthRequired when authentication is required,
\* whatever the other session has done.
ThmC36_SessionsIsolated ==
    /\ [][\A s \in Sessions :
             authenticated'[s] # authenticated[s]
             => /\ last'.sess = s /\ last'.cmd = "Auth" /\ last'.err = "nil"
                /\ authenticated'[s]
                /\ \A t \in Sessions \ {s} : authenticated'[t] = authenticated[t]]_vars
    /\ [](\A s \in Sessions :
             /\ requireAuth(s)
             /\ ~authenticated[s]
             /\ last.sess = s
             /\ last.cmd \in {"Mail", "Rcpt", "Data"}
             => last.err = ErrAuthRequired)

\* one session has authenticated, and the other, which has not, has just
\* been refused at the gate
WitC36_OtherStillRefused ==
    \E s \in Sessions, t \in Sessions :
        /\ s # t
        /\ authenticated[s]
        /\ ~authenticated[t]
        /\ last.sess = t
        /\ last.cmd \in {"Mail", "Rcpt", "Data"}
        /\ last.err = ErrAuthRequired

\* ------------------------------------------------------------------------
\* The order of the commands of a session
\* ------------------------------------------------------------------------
\* C37: Data sends an email to the channel only when, in the transaction of
\* its session, a MAIL FROM and at least one RCPT TO have been accepted.
CexC37_DataAfterMailAndRcpt ==
    \A s \in Observed :
        (txn[s].on /\ pc[s] \in {"send", "ret"})
            => (txn[s].from # <<>> /\ txn[s].rcpts # <<>>)

\* ------------------------------------------------------------------------
\* What the printing of a secret gives away
\* ------------------------------------------------------------------------
\* the last character of str, as bytes
LastCharacter(str) ==
    IF Len(str) >= 2 /\ TwoByteRuneAt(str, Len(str) - 1)
    THEN <<str[Len(str) - 1], str[Len(str)]>> ELSE <<str[Len(str)]>>

\* a and b have the same number of characters, the same first and the same
\* last character
SameShape(a, b) ==
    /\ CharactersFrom(a, 1) = CharactersFrom(b, 1)
    /\ a # <<>> => /\ FirstCharacter(a) = FirstCharacter(b)
                   /\ LastCharacter(a) = LastCharacter(b)

\* what the call recorded in shown would have given for the secret s
Output(via, verb, s) ==
    CASE via = "String" -> String(s)
      [] via = "GoString" -> GoString(s)
      [] via = "MarshalText" -> MarshalText(s)
      [] via = "MarshalJSON" -> MarshalJSON(s)
      [] via = "Format" -> Format(s, verb)
      [] via = "GetValue" -> GetValue(s)

Printed ==
    shown.done /\ shown.via \in {"String", "GoString", "MarshalText", "MarshalJSON", "Format"}

\* C38: what String, GoString, Format, MarshalText and MarshalJSON give for a
\* secret is what they give for every secret of the same length with the
\* same first and last character, and it is never the value of a secret
\* that is not empty; GetValue gives the value.
CexC38_OnlyShapeShown ==
    /\ Printed => /\ \A other \in Secrets :
                        SameShape(secret, other)
                            => Output(shown.via, shown.verb, other) = shown.out
                  /\ secret # <<>> => shown.out # secret
    /\ (shown.done /\ shown.via = "GetValue") => shown.out = secret

\* ------------------------------------------------------------------------
\* The header of the Slack message
\* ------------------------------------------------------------------------
\* C39: the header of a posted message reads "*New notification from:* "
\* followed by the sender of the email, then "*Subject:* " followed by the
\* subject of the email.
CexC39_HeaderShowsSubject ==
    posted # NoMessage
        => posted.header = <<HeaderFrom>> \o e.From \o <<HeaderSubject, e.Subject>>

====
